---- MODULE Spec2Model ----
(***************************************************************************)
(* A model of the three synchronisation managers of project_1/core:        *)
(*   MutexSyncManager      (mutex_sync.py)     - card ledger, stop locks    *)
(*   SemaphoreSyncManager  (semaphore_sync.py) - bus seats, stop docks      *)
(*   ConditionSyncManager  (condition_sync.py) - waits and notifications    *)
(*                                                                         *)
(* Every manager method is a sequence of atomic steps of the calling       *)
(* thread, one step per access to shared state (a dictionary read or       *)
(* write, a lock/semaphore operation, a clock read).  Threads interleave   *)
(* between steps.  A thread's record th[t] holds the method it runs        *)
(* (op), its position (pc), its arguments and locals and, once the method   *)
(* has ended, its outcome (ret): the returned value, or the name of the     *)
(* exception that left the method.                                          *)
(*                                                                         *)
(* Money is counted in half dollars (3.50 $ = 7, 45.0 $ = 90); on these     *)
(* values Python's float arithmetic is exact.                               *)
(*                                                                         *)
(* time.time() is read as a clock `now` that advances in ticks.            *)
(* semaphore_sync.py and condition_sync.py call time.time() and            *)
(* time.sleep() without importing the module; the model follows the        *)
(* methods as they run once the name `time` is bound.                       *)
(***************************************************************************)
EXTENDS Integers, Sequences, FiniteSets, TLC

VARIABLES
    th,                 \* thread -> record of the call the thread is running
    ncalls,             \* number of manager calls begun so far
    now,                \* time.time(), in clock ticks
    \* MutexSyncManager
    card_balances,      \* passenger -> balance
    card_locks,         \* passenger -> thread holding the lock, or Free
    stop_locks,         \* stop -> thread holding the lock, or Free
    credited,           \* history: passenger -> initial balance + credits - debits of the calls that returned True
    \* SemaphoreSyncManager
    bus_semaphores,     \* bus -> value of the seat semaphore
    stop_semaphores,    \* stop -> value of the dock semaphore
    passenger_in_bus,   \* passenger -> bus, or None when the key is absent
    sem_bus_at_stop,    \* SemaphoreSyncManager.bus_at_stop: bus -> stop, or None when absent
    stops_with_buses,   \* stop -> list of buses present
    stop_queues,        \* stop -> list of buses waiting for a dock
    \* ConditionSyncManager
    stop_conditions,    \* stop -> thread holding the condition's lock, or Free
    bus_at_stop,        \* ConditionSyncManager.bus_at_stop: stop -> list of buses
    transfer_condition, \* thread holding the lock of transfer_condition, or Free
    transfers_in_progress,  \* (passenger, from_bus, to_bus) -> completed; its domain is the dictionary's keys
    bus_conditions,     \* bus -> thread holding the lock of the bus's condition, or Free
    boarding_complete,  \* bus -> the flag of the boarding phase
    alighting_complete, \* bus -> the flag of the alighting phase
    phases_started,     \* history: the (phase, bus) pairs for which start_boarding / start_alighting has run
    replaced_conditions, \* the locks of the stop conditions that initialize() has replaced: one stop -> holder map per initialize() call
    \* MessageBusAdapter, MessageStopAdapter and the broker between them
    current_stop,       \* Bus.current_stop: bus -> stop, or None
    passenger_list,     \* Bus.passenger_list: bus -> the passengers aboard
    waiting_passengers, \* Stop.waiting_passengers: stop -> the passengers waiting
    deliveries,         \* the broker's pending on_message calls: (message, subscriber) pairs
    boarding_requests   \* history: the (passenger, target bus) pairs request_boarding has published

commonVars == <<th, ncalls, now>>
mutexVars  == <<card_balances, card_locks, stop_locks, credited>>
seatVars   == <<bus_semaphores, passenger_in_bus>>
dockVars   == <<stop_semaphores, sem_bus_at_stop, stops_with_buses, stop_queues>>
condVars   == <<stop_conditions, bus_at_stop>>
transferVars == <<transfer_condition, transfers_in_progress>>
phaseVars  == <<bus_conditions, boarding_complete, alighting_complete, phases_started,
                replaced_conditions>>
msgVars    == <<current_stop, passenger_list, waiting_passengers, deliveries,
                boarding_requests>>
vars == <<th, ncalls, now, card_balances, card_locks, stop_locks, credited,
          bus_semaphores, stop_semaphores, passenger_in_bus, sem_bus_at_stop,
          stops_with_buses, stop_queues, stop_conditions, bus_at_stop,
          transfer_condition, transfers_in_progress,
          bus_conditions, boarding_complete, alighting_complete, phases_started,
          replaced_conditions, current_stop, passenger_list, waiting_passengers,
          deliveries, boarding_requests>>

----------------------------------------------------------------------------
(* Identifiers supplied by the seed, and the bounds of the model.          *)

Threads    == {"t1", "t2", "t3"}
Passengers == {"p1", "p2"}
Buses      == {"b1", "b2"}
Stops      == {"s1", "s2"}
Free       == "free"
None       == "None"

\* At most this many calls are begun in one run of the ledger scenario.
MaxLedgerCalls == 4

Idle == [op |-> "idle", pc |-> "idle"]

\* The thread is between two calls.
Ready(t) == th[t].pc \in {"idle", "done"}

\* A scenario lets a thread begin a call while fewer than `max` were begun.
CanCall(t, max) == Ready(t) /\ ncalls < max

\* The fields of a call's record that outlive the call: the method, its
\* arguments and the outcome.  The locals die with the call.
Locals == {"old", "loaded", "result", "start_time", "called_at", "since"}
Kept(r) == [f \in (DOMAIN r) \ Locals |-> r[f]]

\* The method ends: the outcome is kept in the thread's record.
Return(r, v) == [Kept(r) EXCEPT !.pc = "done"] @@ [ret |-> v]

\* An exception leaves the method (no handler of the method catches it).
Raise(r, e) == [Kept(r) EXCEPT !.pc = "done"] @@ [ret |-> e, raised |-> TRUE]

\* The call whose record is r ended by raising / by returning False.
Raised(r) == "raised" \in DOMAIN r
ReturnedFalse(r) == ~Raised(r) /\ r.ret = FALSE

Returned(t, o) == th[t].op = o /\ th[t].pc = "done"

----------------------------------------------------------------------------
(* MutexSyncManager                                                        *)

\* def pay_fare(self, passenger_id, amount=3.50)
DEFAULT_FARE == 7
PASS_COST == 90

\* initialize(): random.uniform(10, 100) dollars per card
InitialBalances == [p \in Passengers |-> IF p = "p1" THEN 20 ELSE 95]
FareAmounts     == {DEFAULT_FARE, 20}
RechargeAmounts == {0, 70}
\* Identifiers a caller may pass: the seed's passengers and an unknown one.
PassengerArgs   == Passengers \cup {"p9"}

MutexThreads == {"t1", "t2"}

\* lock.acquire(timeout=2) that succeeds: the lock is free and becomes t's.
LockAcquire_NoExclusion(locks, k, t) == locks
LockAcquire(locks, k, t) == [locks EXCEPT ![k] = t]

LockRelease_Skipped(locks, k) == locks
LockRelease(locks, k) == [locks EXCEPT ![k] = Free]

\* `else:` of `if lock.acquire(timeout=2)`: `return False`
AcquireTimeoutResult_Success == TRUE
AcquireTimeoutResult == FALSE

\* `if self.card_balances[passenger_id] < amount: return False`
InsufficientFunds_Never(balance, amount) == FALSE
InsufficientFunds(balance, amount) == balance < amount

\* `self.card_balances[passenger_id] -= amount`, the value stored
Debit_Twice(balance, amount) == balance - amount - amount
Debit(balance, amount) == balance - amount

Credit(balance, amount) == balance + amount

\* A ledger call begins: the `passenger_id not in self.card_balances` test.
LedgerCall(t, o, p, a) ==
    /\ t \in MutexThreads
    /\ CanCall(t, MaxLedgerCalls)
    /\ ncalls' = ncalls + 1
    /\ th' = [th EXCEPT ![t] =
                IF p \notin DOMAIN card_balances
                THEN Return([op |-> o, pc |-> "call", passenger_id |-> p, amount |-> a], FALSE)
                ELSE [op |-> o, pc |-> "acquire", passenger_id |-> p, amount |-> a]]
    /\ UNCHANGED <<now, msgVars, mutexVars, seatVars, dockVars, condVars, transferVars, phaseVars>>

pay_fare_call(t) ==
    \E p \in PassengerArgs, a \in FareAmounts : LedgerCall(t, "pay_fare", p, a)

recharge_card_call(t) ==
    \E p \in PassengerArgs, a \in RechargeAmounts : LedgerCall(t, "recharge_card", p, a)

refund_call(t) ==
    \E p \in PassengerArgs, a \in RechargeAmounts : LedgerCall(t, "refund", p, a)

buy_monthly_pass_call(t) ==
    \E p \in PassengerArgs : LedgerCall(t, "buy_monthly_pass", p, PASS_COST)

\* `if lock.acquire(timeout=2):` taken: the lock was free.
card_lock_acquired(t) ==
    /\ th[t].op \in {"pay_fare", "recharge_card", "buy_monthly_pass"}
    /\ th[t].pc = "acquire"
    /\ card_locks[th[t].passenger_id] = Free
    /\ card_locks' = LockAcquire(card_locks, th[t].passenger_id, t)
    /\ th' = [th EXCEPT ![t] = [th[t] EXCEPT !.pc = IF th[t].op = "recharge_card" THEN "read" ELSE "check"]
                                @@ [old |-> card_balances[th[t].passenger_id]]]
    /\ UNCHANGED <<ncalls, now, msgVars, card_balances, stop_locks, credited, seatVars, dockVars, condVars, transferVars, phaseVars>>

\* `else:` of `if lock.acquire(timeout=2)`: the lock stayed held for the two seconds.
card_lock_timeout(t) ==
    /\ th[t].op \in {"pay_fare", "recharge_card", "buy_monthly_pass"}
    /\ th[t].pc = "acquire"
    /\ card_locks[th[t].passenger_id] # Free
    /\ th' = [th EXCEPT ![t] = Return(th[t], AcquireTimeoutResult)]
    /\ UNCHANGED <<ncalls, now, msgVars, mutexVars, seatVars, dockVars, condVars, transferVars, phaseVars>>

\* pay_fare / buy_monthly_pass: the balance test under the lock.
debit_check(t) ==
    /\ th[t].op \in {"pay_fare", "buy_monthly_pass"}
    /\ th[t].pc = "check"
    /\ th' = [th EXCEPT ![t] =
                IF InsufficientFunds(card_balances[th[t].passenger_id], th[t].amount)
                THEN [th[t] EXCEPT !.pc = "release"] @@ [result |-> FALSE]
                ELSE [th[t] EXCEPT !.pc = "read"]]
    /\ UNCHANGED <<ncalls, now, msgVars, mutexVars, seatVars, dockVars, condVars, transferVars, phaseVars>>

\* `self.card_balances[passenger_id] -= amount` (or +=): the read of the old value.
balance_read(t) ==
    /\ th[t].op \in {"pay_fare", "recharge_card", "buy_monthly_pass"}
    /\ th[t].pc = "read"
    /\ th' = [th EXCEPT ![t] = [th[t] EXCEPT !.pc = "write"]
                                @@ [loaded |-> card_balances[th[t].passenger_id]]]
    /\ UNCHANGED <<ncalls, now, msgVars, mutexVars, seatVars, dockVars, condVars, transferVars, phaseVars>>

\* `self.card_balances[passenger_id] -= amount` (or +=): the store of the new value.
balance_write(t) ==
    /\ th[t].op \in {"pay_fare", "recharge_card", "buy_monthly_pass"}
    /\ th[t].pc = "write"
    /\ card_balances' = [card_balances EXCEPT ![th[t].passenger_id] =
                            IF th[t].op = "recharge_card"
                            THEN Credit(th[t].loaded, th[t].amount)
                            ELSE Debit(th[t].loaded, th[t].amount)]
    /\ th' = [th EXCEPT ![t] = [th[t] EXCEPT !.pc = "release"] @@ [result |-> TRUE]]
    /\ UNCHANGED <<ncalls, now, msgVars, card_locks, stop_locks, credited, seatVars, dockVars, condVars, transferVars, phaseVars>>

\* `finally: lock.release()`, then the return of the pending result.
card_lock_release(t) ==
    /\ th[t].op \in {"pay_fare", "recharge_card", "buy_monthly_pass"}
    /\ th[t].pc = "release"
    /\ card_locks' = LockRelease(card_locks, th[t].passenger_id)
    /\ credited' = [credited EXCEPT ![th[t].passenger_id] =
                        IF ~th[t].result THEN @
                        ELSE IF th[t].op = "recharge_card" THEN @ + th[t].amount
                        ELSE @ - th[t].amount]
    /\ th' = [th EXCEPT ![t] = Return(th[t], th[t].result)]
    /\ UNCHANGED <<ncalls, now, msgVars, card_balances, stop_locks, seatVars, dockVars, condVars, transferVars, phaseVars>>

\* refund: `with lock.aquire(timeout=2):` - a threading.Lock has no attribute
\* `aquire`, so the attribute lookup raises AttributeError before anything is locked.
refund_raise(t) ==
    /\ th[t].op = "refund"
    /\ th[t].pc = "acquire"
    /\ th' = [th EXCEPT ![t] = Raise(th[t], "AttributeError")]
    /\ UNCHANGED <<ncalls, now, msgVars, mutexVars, seatVars, dockVars, condVars, transferVars, phaseVars>>

----------------------------------------------------------------------------
(* MutexSyncManager: boarding and alighting at a stop                      *)

\* At most this many calls are begun in one run of the stop-lock scenario.
MaxStopCalls == 4

\* The two methods that take a stop's lock.  MutexSyncManager.board_passenger
\* is written "mutex_board_passenger" to tell it from the method of the same
\* name of SemaphoreSyncManager.
StopOps == {"mutex_board_passenger", "alight_passengers"}

\* board_passenger / alight_passengers begins: `if stop not in self.stop_locks`.
StopCall(t, o, stops, max) ==
    \E s \in stops :
        /\ CanCall(t, max)
        /\ ncalls' = ncalls + 1
        /\ th' = [th EXCEPT ![t] =
                    IF s \notin DOMAIN stop_locks
                    THEN Return([op |-> o, pc |-> "call", stop |-> s], FALSE)
                    ELSE [op |-> o, pc |-> "acquire", stop |-> s]]
        /\ UNCHANGED <<now, msgVars, mutexVars, seatVars, dockVars, condVars, transferVars, phaseVars>>

mutex_board_passenger_call(t, stops, max) == StopCall(t, "mutex_board_passenger", stops, max)

alight_passengers_call(t, stops, max) == StopCall(t, "alight_passengers", stops, max)

\* `if lock.acquire(timeout=2):` taken: the stop's lock was free.
stop_lock_acquired(t) ==
    /\ th[t].op \in StopOps
    /\ th[t].pc = "acquire"
    /\ stop_locks[th[t].stop] = Free
    /\ stop_locks' = LockAcquire(stop_locks, th[t].stop, t)
    /\ th' = [th EXCEPT ![t].pc = "work"]
    /\ UNCHANGED <<ncalls, now, msgVars, card_balances, card_locks, credited, seatVars, dockVars, condVars, transferVars, phaseVars>>

\* `else:` the stop's lock stayed held for the two seconds.
stop_lock_timeout(t) ==
    /\ th[t].op \in StopOps
    /\ th[t].pc = "acquire"
    /\ stop_locks[th[t].stop] # Free
    /\ th' = [th EXCEPT ![t] = Return(th[t], AcquireTimeoutResult)]
    /\ UNCHANGED <<ncalls, now, msgVars, mutexVars, seatVars, dockVars, condVars, transferVars, phaseVars>>

\* board_passenger(self, stop, buss, ...) under the lock: the first logging
\* line formats `bus`, a name the method does not have (its parameter is
\* `buss`): NameError; `finally: lock.release()` runs and the exception
\* leaves the method.
board_name_error(t) ==
    /\ th[t].op = "mutex_board_passenger"
    /\ th[t].pc = "work"
    /\ stop_locks' = LockRelease(stop_locks, th[t].stop)
    /\ th' = [th EXCEPT ![t] = Raise(th[t], "NameError")]
    /\ UNCHANGED <<ncalls, now, msgVars, card_balances, card_locks, credited, seatVars, dockVars, condVars, transferVars, phaseVars>>

\* alight_passengers under the lock: time.sleep(1), then `return True` through
\* `finally: lock.release()`.
alight_done_release(t) ==
    /\ th[t].op = "alight_passengers"
    /\ th[t].pc = "work"
    /\ stop_locks' = LockRelease(stop_locks, th[t].stop)
    /\ th' = [th EXCEPT ![t] = Return(th[t], TRUE)]
    /\ UNCHANGED <<ncalls, now, msgVars, card_balances, card_locks, credited, seatVars, dockVars, condVars, transferVars, phaseVars>>

\* manager.cleanup(): `def cleanup(self)` stands at column 0 after the class
\* body, so it is a function of the module and a MutexSyncManager has no
\* attribute `cleanup`: the call raises AttributeError and clears nothing.
mutex_cleanup(t, max) ==
    /\ CanCall(t, max)
    /\ ncalls' = ncalls + 1
    /\ th' = [th EXCEPT ![t] = Raise([op |-> "cleanup", pc |-> "call"], "AttributeError")]
    /\ UNCHANGED <<now, msgVars, mutexVars, seatVars, dockVars, condVars, transferVars, phaseVars>>

\* Thread t is inside the boarding/alighting critical section of stop s.
AtStop(t, s) == th[t].op \in StopOps /\ th[t].pc = "work" /\ th[t].stop = s

----------------------------------------------------------------------------
(* SemaphoreSyncManager: bus seats                                          *)

\* At most this many calls are begun in one run of the seat scenario.
MaxSeatCalls == 6

\* semaphore.acquire(timeout=...) that succeeds: one unit is taken.
SemAcquire(sems, k) == [sems EXCEPT ![k] = @ - 1]

\* semaphore.release(): threading.Semaphore has no upper bound, the value
\* simply grows by one.
SemRelease_Lost(sems, k) == sems
SemRelease(sems, k) == [sems EXCEPT ![k] = @ + 1]

\* The passengers recorded aboard bus b.
Aboard(b) == {p \in Passengers : passenger_in_bus[p] = b}

\* board_passenger begins: the `bus_id not in self.bus_semaphores` test.
board_passenger_call(t) ==
    \E b \in Buses, p \in Passengers :
        /\ CanCall(t, MaxSeatCalls)
        /\ ncalls' = ncalls + 1
        /\ th' = [th EXCEPT ![t] =
                    IF b \notin DOMAIN bus_semaphores
                    THEN Return([op |-> "board_passenger", pc |-> "call", bus_id |-> b, passenger_id |-> p], FALSE)
                    ELSE [op |-> "board_passenger", pc |-> "acquire", bus_id |-> b, passenger_id |-> p]]
        /\ UNCHANGED <<now, msgVars, mutexVars, seatVars, dockVars, condVars, transferVars, phaseVars>>

\* `acquired = bus_semaphore.acquire(timeout=timeout)` returning True.
board_acquired(t) ==
    /\ th[t].op = "board_passenger"
    /\ th[t].pc = "acquire"
    /\ bus_semaphores[th[t].bus_id] > 0
    /\ bus_semaphores' = SemAcquire(bus_semaphores, th[t].bus_id)
    /\ th' = [th EXCEPT ![t].pc = "record"]
    /\ UNCHANGED <<ncalls, now, msgVars, passenger_in_bus, mutexVars, dockVars, condVars, transferVars, phaseVars>>

\* `if not acquired: return False`: the semaphore stayed at 0 until the timeout.
board_timeout(t) ==
    /\ th[t].op = "board_passenger"
    /\ th[t].pc = "acquire"
    /\ bus_semaphores[th[t].bus_id] = 0
    /\ th' = [th EXCEPT ![t] = Return(th[t], FALSE)]
    /\ UNCHANGED <<ncalls, now, msgVars, mutexVars, seatVars, dockVars, condVars, transferVars, phaseVars>>

\* `self.passenger_in_bus[passenger_id] = bus_id; return True`
board_record(t) ==
    /\ th[t].op = "board_passenger"
    /\ th[t].pc = "record"
    /\ passenger_in_bus' = [passenger_in_bus EXCEPT ![th[t].passenger_id] = th[t].bus_id]
    /\ th' = [th EXCEPT ![t] = Return(th[t], TRUE)]
    /\ UNCHANGED <<ncalls, now, msgVars, bus_semaphores, mutexVars, dockVars, condVars, transferVars, phaseVars>>

\* alight_passenger begins: `bus_id not in self.bus_semaphores`, then
\* `if passenger_id not in self.passenger_in_bus: return False`.
alight_passenger_call(t) ==
    \E b \in Buses, p \in Passengers :
        /\ CanCall(t, MaxSeatCalls)
        /\ ncalls' = ncalls + 1
        /\ th' = [th EXCEPT ![t] =
                    IF b \notin DOMAIN bus_semaphores \/ passenger_in_bus[p] = None
                    THEN Return([op |-> "alight_passenger", pc |-> "call", bus_id |-> b, passenger_id |-> p], FALSE)
                    ELSE [op |-> "alight_passenger", pc |-> "compare", bus_id |-> b, passenger_id |-> p]]
        /\ UNCHANGED <<now, msgVars, mutexVars, seatVars, dockVars, condVars, transferVars, phaseVars>>

\* `if self.passenger_in_bus[passenger_id] != bus_id: return False`; the
\* subscript raises KeyError when the key was deleted since the `in` test.
alight_compare(t) ==
    /\ th[t].op = "alight_passenger"
    /\ th[t].pc = "compare"
    /\ th' = [th EXCEPT ![t] =
                IF passenger_in_bus[th[t].passenger_id] = None THEN Raise(th[t], "KeyError")
                ELSE IF passenger_in_bus[th[t].passenger_id] # th[t].bus_id THEN Return(th[t], FALSE)
                ELSE [th[t] EXCEPT !.pc = "delete"]]
    /\ UNCHANGED <<ncalls, now, msgVars, mutexVars, seatVars, dockVars, condVars, transferVars, phaseVars>>

\* `del self.passenger_in_bus[passenger_id]` inside `try ... except ValueError`:
\* a KeyError is not caught and leaves the method.
alight_delete(t) ==
    /\ th[t].op = "alight_passenger"
    /\ th[t].pc = "delete"
    /\ IF passenger_in_bus[th[t].passenger_id] = None
       THEN /\ th' = [th EXCEPT ![t] = Raise(th[t], "KeyError")]
            /\ UNCHANGED passenger_in_bus
       ELSE /\ passenger_in_bus' = [passenger_in_bus EXCEPT ![th[t].passenger_id] = None]
            /\ th' = [th EXCEPT ![t].pc = "release"]
    /\ UNCHANGED <<ncalls, now, msgVars, bus_semaphores, mutexVars, dockVars, condVars, transferVars, phaseVars>>

\* `bus_semaphore.release(); return True`
alight_release(t) ==
    /\ th[t].op = "alight_passenger"
    /\ th[t].pc = "release"
    /\ bus_semaphores' = SemRelease(bus_semaphores, th[t].bus_id)
    /\ th' = [th EXCEPT ![t] = Return(th[t], TRUE)]
    /\ UNCHANGED <<ncalls, now, msgVars, passenger_in_bus, mutexVars, dockVars, condVars, transferVars, phaseVars>>

----------------------------------------------------------------------------
(* SemaphoreSyncManager: stop docks                                         *)

\* At most this many calls are begun in one run of the dock scenario.
MaxDockCalls == 6

\* The bus threads of the dock scenario.
DockThreads == {"t1", "t2"}

\* The stop the buses of the dock scenario arrive at.
DockStops == {"s1"}

\* list.remove(x): the list without the first occurrence of x.
Remove_Nothing(list, x) == list
RECURSIVE Remove(_, _)
Remove(list, x) ==
    IF list = << >> THEN << >>
    ELSE IF Head(list) = x THEN Tail(list)
    ELSE <<Head(list)>> \o Remove(Tail(list), x)

\* `x in list`
Contains(list, x) == \E i \in 1..Len(list) : list[i] = x

\* bus_arrive_at_stop begins: the `stop_id not in self.stop_semaphores` test,
\* then `with queue_lock: stop_queue.append(bus_id)`.  `ticket` numbers the
\* appends in the order they were made.
bus_arrive_at_stop_call(t) ==
    \E b \in Buses, s \in DockStops :
        /\ CanCall(t, MaxDockCalls)
        /\ ncalls' = ncalls + 1
        /\ IF s \notin DOMAIN stop_semaphores
           THEN /\ th' = [th EXCEPT ![t] =
                            Return([op |-> "bus_arrive_at_stop", pc |-> "call", bus_id |-> b, stop_id |-> s], FALSE)]
                /\ UNCHANGED stop_queues
           ELSE /\ th' = [th EXCEPT ![t] =
                            [op |-> "bus_arrive_at_stop", pc |-> "poll", bus_id |-> b, stop_id |-> s, ticket |-> ncalls]]
                /\ stop_queues' = [stop_queues EXCEPT ![s] = Append(@, b)]
        /\ UNCHANGED <<now, msgVars, stop_semaphores, sem_bus_at_stop, stops_with_buses, mutexVars, seatVars, condVars, transferVars, phaseVars>>

\* `with queue_lock: if stop_queue[0] == bus_id: break`
arrive_at_head(t) ==
    /\ th[t].op = "bus_arrive_at_stop"
    /\ th[t].pc = "poll"
    /\ Head(stop_queues[th[t].stop_id]) = th[t].bus_id
    /\ th' = [th EXCEPT ![t].pc = "acquire"]
    /\ UNCHANGED <<ncalls, now, msgVars, mutexVars, seatVars, dockVars, condVars, transferVars, phaseVars>>

\* The bus is not at the head and `time.time() - start_time > timeout`:
\* `with queue_lock: stop_queue.remove(bus_id)`, `return False`.
arrive_queue_timeout(t) ==
    /\ th[t].op = "bus_arrive_at_stop"
    /\ th[t].pc = "poll"
    /\ Head(stop_queues[th[t].stop_id]) # th[t].bus_id
    /\ stop_queues' = [stop_queues EXCEPT ![th[t].stop_id] = Remove(@, th[t].bus_id)]
    /\ th' = [th EXCEPT ![t] = Return(th[t], FALSE)]
    /\ UNCHANGED <<ncalls, now, msgVars, stop_semaphores, sem_bus_at_stop, stops_with_buses, mutexVars, seatVars, condVars, transferVars, phaseVars>>

\* `stop_semaphore.acquire(timeout=timeout)` returning True.
arrive_acquired(t) ==
    /\ th[t].op = "bus_arrive_at_stop"
    /\ th[t].pc = "acquire"
    /\ stop_semaphores[th[t].stop_id] > 0
    /\ stop_semaphores' = SemAcquire(stop_semaphores, th[t].stop_id)
    /\ th' = [th EXCEPT ![t].pc = "dequeue"]
    /\ UNCHANGED <<ncalls, now, msgVars, sem_bus_at_stop, stops_with_buses, stop_queues, mutexVars, seatVars, condVars, transferVars, phaseVars>>

\* `if not stop_semaphore.acquire(timeout=timeout):` the semaphore stayed at 0;
\* `with queue_lock: stop_queue.remove(bus_id)`, `return False`.
arrive_dock_timeout(t) ==
    /\ th[t].op = "bus_arrive_at_stop"
    /\ th[t].pc = "acquire"
    /\ stop_semaphores[th[t].stop_id] = 0
    /\ stop_queues' = [stop_queues EXCEPT ![th[t].stop_id] = Remove(@, th[t].bus_id)]
    /\ th' = [th EXCEPT ![t] = Return(th[t], FALSE)]
    /\ UNCHANGED <<ncalls, now, msgVars, stop_semaphores, sem_bus_at_stop, stops_with_buses, mutexVars, seatVars, condVars, transferVars, phaseVars>>

\* `with queue_lock: stop_queue.remove(bus_id)` after the acquisition.
arrive_dequeue(t) ==
    /\ th[t].op = "bus_arrive_at_stop"
    /\ th[t].pc = "dequeue"
    /\ stop_queues' = [stop_queues EXCEPT ![th[t].stop_id] = Remove(@, th[t].bus_id)]
    /\ th' = [th EXCEPT ![t].pc = "record_bus"]
    /\ UNCHANGED <<ncalls, now, msgVars, stop_semaphores, sem_bus_at_stop, stops_with_buses, mutexVars, seatVars, condVars, transferVars, phaseVars>>

\* `self.bus_at_stop[bus_id] = stop_id`
arrive_record_bus(t) ==
    /\ th[t].op = "bus_arrive_at_stop"
    /\ th[t].pc = "record_bus"
    /\ sem_bus_at_stop' = [sem_bus_at_stop EXCEPT ![th[t].bus_id] = th[t].stop_id]
    /\ th' = [th EXCEPT ![t].pc = "record_stop"]
    /\ UNCHANGED <<ncalls, now, msgVars, stop_semaphores, stops_with_buses, stop_queues, mutexVars, seatVars, condVars, transferVars, phaseVars>>

\* `self.stops_with_buses[stop_id].append(bus_id)`, `return True`
arrive_record_stop(t) ==
    /\ th[t].op = "bus_arrive_at_stop"
    /\ th[t].pc = "record_stop"
    /\ stops_with_buses' = [stops_with_buses EXCEPT ![th[t].stop_id] = Append(@, th[t].bus_id)]
    /\ th' = [th EXCEPT ![t] = Return(th[t], TRUE)]
    /\ UNCHANGED <<ncalls, now, msgVars, stop_semaphores, sem_bus_at_stop, stop_queues, mutexVars, seatVars, condVars, transferVars, phaseVars>>

\* bus_arrive_at_stop with its clock.  The steps above let a timeout happen
\* whenever the bus is not admitted; the steps below read time.time() as
\* `now`: the queue wait gives up when `time.time() - start_time > timeout`
\* and sleeps time.sleep(0.1) between two polls, and the semaphore wait gives
\* up `timeout` after it began.  Their positions are "timed_poll", "sleep"
\* and "timed_acquire"; after the acquisition the call goes on with
\* arrive_dequeue.  `since` is the time the current sleep or semaphore wait
\* began.

\* The clock of a timed dock scenario stops at this tick.
MaxDockTime == 5

\* time.sleep(0.1), in clock ticks
PollInterval == 1

\* The timeouts a caller passes, in clock ticks.
DockTimeouts == {1, 2}

\* `if time.time() - start_time > timeout`
QueueWaitExpired(start, timeout) == now - start > timeout

\* stop_semaphore.acquire(timeout=timeout) gives up: `timeout` has passed
\* since the acquire began.
SemWaitExpired_Never(since, timeout) == FALSE
SemWaitExpired(since, timeout) == now - since >= timeout

\* time.time() advances (up to the end of the timed dock scenario).
DockTick ==
    /\ now < MaxDockTime
    /\ now' = now + 1
    /\ UNCHANGED <<th, ncalls, mutexVars, seatVars, dockVars, condVars, transferVars, phaseVars, msgVars>>

\* bus_arrive_at_stop begins: the stop test, the append, `start_time = time.time()`.
\* (A call is let in only while its latest return lies within the modelled time.)
timed_bus_arrive_at_stop_call(t, buses, stops, timeouts) ==
    \E b \in buses, s \in stops, d \in timeouts :
        /\ CanCall(t, MaxDockCalls)
        /\ now + d + PollInterval + d <= MaxDockTime
        /\ ncalls' = ncalls + 1
        /\ IF s \notin DOMAIN stop_semaphores
           THEN /\ th' = [th EXCEPT ![t] =
                            Return([op |-> "bus_arrive_at_stop", pc |-> "call", bus_id |-> b,
                                    stop_id |-> s, timeout |-> d], FALSE)]
                /\ UNCHANGED stop_queues
           ELSE /\ th' = [th EXCEPT ![t] =
                            [op |-> "bus_arrive_at_stop", pc |-> "timed_poll", bus_id |-> b,
                             stop_id |-> s, timeout |-> d, start_time |-> now, since |-> now]]
                /\ stop_queues' = [stop_queues EXCEPT ![s] = Append(@, b)]
        /\ UNCHANGED <<now, msgVars, stop_semaphores, sem_bus_at_stop, stops_with_buses, mutexVars, seatVars, condVars, transferVars, phaseVars>>

\* One round of the `while True` loop: at the head of the queue the loop is
\* left and the semaphore wait begins; else, past the timeout, the bus leaves
\* the queue and the call returns False; else the thread sleeps.
timed_poll(t) ==
    /\ th[t].op = "bus_arrive_at_stop"
    /\ th[t].pc = "timed_poll"
    /\ IF Head(stop_queues[th[t].stop_id]) = th[t].bus_id
       THEN /\ th' = [th EXCEPT ![t] = [th[t] EXCEPT !.pc = "timed_acquire", !.since = now]]
            /\ UNCHANGED stop_queues
       ELSE IF QueueWaitExpired(th[t].start_time, th[t].timeout)
       THEN /\ stop_queues' = [stop_queues EXCEPT ![th[t].stop_id] = Remove(@, th[t].bus_id)]
            /\ th' = [th EXCEPT ![t] = Return(th[t], FALSE)]
       ELSE /\ th' = [th EXCEPT ![t] = [th[t] EXCEPT !.pc = "sleep", !.since = now]]
            /\ UNCHANGED stop_queues
    /\ UNCHANGED <<ncalls, now, msgVars, stop_semaphores, sem_bus_at_stop, stops_with_buses, mutexVars, seatVars, condVars, transferVars, phaseVars>>

\* time.sleep(0.1) ends; back to the head test.
timed_sleep_done(t) ==
    /\ th[t].op = "bus_arrive_at_stop"
    /\ th[t].pc = "sleep"
    /\ now - th[t].since >= PollInterval
    /\ th' = [th EXCEPT ![t].pc = "timed_poll"]
    /\ UNCHANGED <<ncalls, now, msgVars, mutexVars, seatVars, dockVars, condVars, transferVars, phaseVars>>

\* `stop_semaphore.acquire(timeout=timeout)` returning True.
timed_acquired(t) ==
    /\ th[t].op = "bus_arrive_at_stop"
    /\ th[t].pc = "timed_acquire"
    /\ stop_semaphores[th[t].stop_id] > 0
    /\ stop_semaphores' = SemAcquire(stop_semaphores, th[t].stop_id)
    /\ th' = [th EXCEPT ![t].pc = "dequeue"]
    /\ UNCHANGED <<ncalls, now, msgVars, sem_bus_at_stop, stops_with_buses, stop_queues, mutexVars, seatVars, condVars, transferVars, phaseVars>>

\* `if not stop_semaphore.acquire(timeout=timeout):` the semaphore stayed at
\* 0 for `timeout`; the bus leaves the queue and the call returns False.
timed_dock_timeout(t) ==
    /\ th[t].op = "bus_arrive_at_stop"
    /\ th[t].pc = "timed_acquire"
    /\ stop_semaphores[th[t].stop_id] = 0
    /\ SemWaitExpired(th[t].since, th[t].timeout)
    /\ stop_queues' = [stop_queues EXCEPT ![th[t].stop_id] = Remove(@, th[t].bus_id)]
    /\ th' = [th EXCEPT ![t] = Return(th[t], FALSE)]
    /\ UNCHANGED <<ncalls, now, msgVars, stop_semaphores, sem_bus_at_stop, stops_with_buses, mutexVars, seatVars, condVars, transferVars, phaseVars>>

\* Thread t has a step of bus_arrive_at_stop to take that waits for nothing
\* (neither for the clock nor for a dock unit).
HasPromptStep(t) ==
    /\ th[t].op = "bus_arrive_at_stop"
    /\ \/ th[t].pc \in {"timed_poll", "dequeue", "record_bus", "record_stop"}
       \/ th[t].pc = "sleep" /\ now - th[t].since >= PollInterval
       \/ th[t].pc = "timed_acquire" /\
            (stop_semaphores[th[t].stop_id] > 0 \/ SemWaitExpired(th[t].since, th[t].timeout))

\* The clock advances while every thread is waiting: a thread that can go on
\* does so before the next tick.
PromptDockTick ==
    /\ \A t \in Threads : ~HasPromptStep(t)
    /\ DockTick

\* board_passenger with its clock.  It begins: the
\* `bus_id not in self.bus_semaphores` test, then the semaphore wait starts.
\* (A call is let in only while its latest return lies within the modelled time.)
timed_board_passenger_call(t, buses, passengers, timeouts) ==
    \E b \in buses, p \in passengers, d \in timeouts :
        /\ CanCall(t, MaxSeatCalls)
        /\ now + d <= MaxDockTime
        /\ ncalls' = ncalls + 1
        /\ th' = [th EXCEPT ![t] =
                    IF b \notin DOMAIN bus_semaphores
                    THEN Return([op |-> "board_passenger", pc |-> "call", bus_id |-> b,
                                 passenger_id |-> p, timeout |-> d], FALSE)
                    ELSE [op |-> "board_passenger", pc |-> "timed_acquire", bus_id |-> b,
                          passenger_id |-> p, timeout |-> d, since |-> now]]
        /\ UNCHANGED <<now, msgVars, mutexVars, seatVars, dockVars, condVars, transferVars, phaseVars>>

\* `acquired = bus_semaphore.acquire(timeout=timeout)` returning True.
timed_board_acquired(t) ==
    /\ th[t].op = "board_passenger"
    /\ th[t].pc = "timed_acquire"
    /\ bus_semaphores[th[t].bus_id] > 0
    /\ bus_semaphores' = SemAcquire(bus_semaphores, th[t].bus_id)
    /\ th' = [th EXCEPT ![t].pc = "record"]
    /\ UNCHANGED <<ncalls, now, msgVars, passenger_in_bus, mutexVars, dockVars, condVars, transferVars, phaseVars>>

\* `if not acquired: return False`: the semaphore stayed at 0 for `timeout`.
timed_board_timeout(t) ==
    /\ th[t].op = "board_passenger"
    /\ th[t].pc = "timed_acquire"
    /\ bus_semaphores[th[t].bus_id] = 0
    /\ SemWaitExpired(th[t].since, th[t].timeout)
    /\ th' = [th EXCEPT ![t] = Return(th[t], FALSE)]
    /\ UNCHANGED <<ncalls, now, msgVars, mutexVars, seatVars, dockVars, condVars, transferVars, phaseVars>>

\* bus_depart_from_stop begins: `stop_id not in self.stop_semaphores`, then
\* `if bus_id not in self.bus_at_stop: return False`.
bus_depart_from_stop_call(t) ==
    \E b \in Buses, s \in DockStops :
        /\ CanCall(t, MaxDockCalls)
        /\ ncalls' = ncalls + 1
        /\ th' = [th EXCEPT ![t] =
                    IF s \notin DOMAIN stop_semaphores \/ sem_bus_at_stop[b] = None
                    THEN Return([op |-> "bus_depart_from_stop", pc |-> "call", bus_id |-> b, stop_id |-> s], FALSE)
                    ELSE [op |-> "bus_depart_from_stop", pc |-> "compare", bus_id |-> b, stop_id |-> s]]
        /\ UNCHANGED <<now, msgVars, mutexVars, seatVars, dockVars, condVars, transferVars, phaseVars>>

\* `if self.bus_at_stop[bus_id] != stop_id: return False`; the subscript
\* raises KeyError when the key was deleted since the `in` test.
depart_compare(t) ==
    /\ th[t].op = "bus_depart_from_stop"
    /\ th[t].pc = "compare"
    /\ th' = [th EXCEPT ![t] =
                IF sem_bus_at_stop[th[t].bus_id] = None THEN Raise(th[t], "KeyError")
                ELSE IF sem_bus_at_stop[th[t].bus_id] # th[t].stop_id THEN Return(th[t], FALSE)
                ELSE [th[t] EXCEPT !.pc = "release"]]
    /\ UNCHANGED <<ncalls, now, msgVars, mutexVars, seatVars, dockVars, condVars, transferVars, phaseVars>>

\* `stop_semaphore.release()`: the first statement of the try block.
depart_release(t) ==
    /\ th[t].op = "bus_depart_from_stop"
    /\ th[t].pc = "release"
    /\ stop_semaphores' = SemRelease(stop_semaphores, th[t].stop_id)
    /\ th' = [th EXCEPT ![t].pc = "delete"]
    /\ UNCHANGED <<ncalls, now, msgVars, sem_bus_at_stop, stops_with_buses, stop_queues, mutexVars, seatVars, condVars, transferVars, phaseVars>>

\* `del self.bus_at_stop[bus_id]`: a KeyError is not caught by
\* `except ValueError` and leaves the method.
depart_delete(t) ==
    /\ th[t].op = "bus_depart_from_stop"
    /\ th[t].pc = "delete"
    /\ IF sem_bus_at_stop[th[t].bus_id] = None
       THEN /\ th' = [th EXCEPT ![t] = Raise(th[t], "KeyError")]
            /\ UNCHANGED sem_bus_at_stop
       ELSE /\ sem_bus_at_stop' = [sem_bus_at_stop EXCEPT ![th[t].bus_id] = None]
            /\ th' = [th EXCEPT ![t].pc = "remove"]
    /\ UNCHANGED <<ncalls, now, msgVars, stop_semaphores, stops_with_buses, stop_queues, mutexVars, seatVars, condVars, transferVars, phaseVars>>

\* `with self.queue_locks[stop_id]: self.stops_with_buses[stop_id].remove(bus_id)`,
\* `return True`; list.remove raises ValueError when the bus is not in the
\* list, which `except ValueError: return False` catches.
depart_remove(t) ==
    /\ th[t].op = "bus_depart_from_stop"
    /\ th[t].pc = "remove"
    /\ IF Contains(stops_with_buses[th[t].stop_id], th[t].bus_id)
       THEN /\ stops_with_buses' = [stops_with_buses EXCEPT ![th[t].stop_id] = Remove(@, th[t].bus_id)]
            /\ th' = [th EXCEPT ![t] = Return(th[t], TRUE)]
       ELSE /\ th' = [th EXCEPT ![t] = Return(th[t], FALSE)]
            /\ UNCHANGED stops_with_buses
    /\ UNCHANGED <<ncalls, now, msgVars, stop_semaphores, sem_bus_at_stop, stop_queues, mutexVars, seatVars, condVars, transferVars, phaseVars>>

----------------------------------------------------------------------------
(* ConditionSyncManager: passengers waiting for a bus at a stop             *)

\* At most this many calls are begun in one run of a waiting scenario.
MaxCondCalls == 4

\* The clock of a scenario stops at this tick.
MaxTime == 2

\* A stop's list of present buses is modelled up to this length.
MaxPresent == 2

\* The timeouts a caller passes, in clock ticks.
Timeouts == {0, 1}

\* Identifiers a caller may pass: the seed's stops and an unknown one.
StopArgs == Stops \cup {"s9"}

\* The return value of wait_for_bus when it gives up: the integer -1, which
\* is no bus of the seed (identifiers are written as strings here).
TIMEOUT == "-1"

\* wait_for_bus: the test made on `available_buses` in each round of the loop.
Matches_AnyBus(target, available) == available # << >>
Matches(target, available) ==
    IF target = None THEN available # << >> ELSE Contains(available, target)

\* wait_for_bus: the bus returned when the test succeeds.
Matched_Last(target, available) ==
    IF target = None THEN available[Len(available)] ELSE target
Matched(target, available) ==
    IF target = None THEN available[1] ELSE target

\* `while time.time() - start_time < timeout`
InTime_Always(start, timeout) == TRUE
InTime(start, timeout) == now - start < timeout

\* The threads a notification wakes: condition.notify_all() wakes every
\* thread parked in condition.wait() on the stop's condition.
Parked(s) == {t \in Threads : th[t].op = "wait_for_bus" /\ th[t].pc = "parked" /\ th[t].stop_id = s}

NotifyAll_OnlyOne(s) ==
    IF Parked(s) = {} THEN {} ELSE {CHOOSE t \in Parked(s) : TRUE}
NotifyAll(s) == Parked(s)

Wake(woken) ==
    [t \in Threads |-> IF t \in woken THEN [th[t] EXCEPT !.pc = "woken"] ELSE th[t]]

\* wait_for_bus ends: of the call's record the method, the target, the
\* timeout and the outcome are kept.
ReturnWait(r, v) ==
    [op |-> r.op, pc |-> "done", target_bus_id |-> r.target_bus_id,
     timeout |-> r.timeout, ret |-> v]

\* time.time() advances.
Tick ==
    /\ now < MaxTime
    /\ now' = now + 1
    /\ UNCHANGED <<th, ncalls, mutexVars, seatVars, dockVars, condVars, transferVars, phaseVars, msgVars>>

\* wait_for_bus begins: `if stop_id not in self.stop_conditions: return -1`.
\* called_at keeps the time of the call.
wait_for_bus_call(t, stops, targets, timeouts) ==
    \E s \in stops, b \in targets, d \in timeouts :
        /\ CanCall(t, MaxCondCalls)
        /\ ncalls' = ncalls + 1
        /\ th' = [th EXCEPT ![t] =
                    IF s \notin DOMAIN stop_conditions
                    THEN ReturnWait([op |-> "wait_for_bus", pc |-> "call", stop_id |-> s,
                                     target_bus_id |-> b, timeout |-> d], TIMEOUT)
                    ELSE [op |-> "wait_for_bus", pc |-> "enter", stop_id |-> s,
                          target_bus_id |-> b, timeout |-> d, called_at |-> now]]
        /\ UNCHANGED <<now, msgVars, mutexVars, seatVars, dockVars, condVars, transferVars, phaseVars>>

\* `with condition:` takes the stop's lock, then `start_time = time.time()`.
\* (A call is let in only while its deadline lies within the modelled time.)
wait_enter(t) ==
    /\ th[t].op = "wait_for_bus"
    /\ th[t].pc = "enter"
    /\ stop_conditions[th[t].stop_id] = Free
    /\ now + th[t].timeout <= MaxTime
    /\ stop_conditions' = LockAcquire(stop_conditions, th[t].stop_id, t)
    /\ th' = [th EXCEPT ![t] = [th[t] EXCEPT !.pc = "loop"] @@ [start_time |-> now]]
    /\ UNCHANGED <<ncalls, now, msgVars, bus_at_stop, mutexVars, seatVars, dockVars, transferVars, phaseVars>>

\* One round of the loop, under the stop's lock: the `while` test, then the
\* test of the present buses; a return leaves the `with` block and frees the lock.
wait_loop(t) ==
    /\ th[t].op = "wait_for_bus"
    /\ th[t].pc = "loop"
    /\ LET available == bus_at_stop[th[t].stop_id] IN
       IF ~InTime(th[t].start_time, th[t].timeout)
       THEN /\ th' = [th EXCEPT ![t] = ReturnWait(th[t], TIMEOUT)]
            /\ stop_conditions' = LockRelease(stop_conditions, th[t].stop_id)
       ELSE IF Matches(th[t].target_bus_id, available)
       THEN /\ th' = [th EXCEPT ![t] = ReturnWait(th[t], Matched(th[t].target_bus_id, available))]
            /\ stop_conditions' = LockRelease(stop_conditions, th[t].stop_id)
       ELSE /\ th' = [th EXCEPT ![t].pc = "wait"]
            /\ UNCHANGED stop_conditions
    /\ UNCHANGED <<ncalls, now, msgVars, bus_at_stop, mutexVars, seatVars, dockVars, transferVars, phaseVars>>

\* `condition.wait(timeout=timeout - (time.time() - start_time))`: the lock is
\* freed and the thread parks; the wait ends by itself at start_time + timeout.
wait_park(t) ==
    /\ th[t].op = "wait_for_bus"
    /\ th[t].pc = "wait"
    /\ stop_conditions' = LockRelease(stop_conditions, th[t].stop_id)
    /\ th' = [th EXCEPT ![t].pc = "parked"]
    /\ UNCHANGED <<ncalls, now, msgVars, bus_at_stop, mutexVars, seatVars, dockVars, transferVars, phaseVars>>

\* condition.wait() ends because its timeout has run out.
wait_timed_out(t) ==
    /\ th[t].op = "wait_for_bus"
    /\ th[t].pc = "parked"
    /\ now >= th[t].start_time + th[t].timeout
    /\ th' = [th EXCEPT ![t].pc = "woken"]
    /\ UNCHANGED <<ncalls, now, msgVars, mutexVars, seatVars, dockVars, condVars, transferVars, phaseVars>>

\* condition.wait() returns: the woken thread takes the lock again and goes
\* back to the `while` test.
wait_reacquire(t) ==
    /\ th[t].op = "wait_for_bus"
    /\ th[t].pc = "woken"
    /\ stop_conditions[th[t].stop_id] = Free
    /\ stop_conditions' = LockAcquire(stop_conditions, th[t].stop_id, t)
    /\ th' = [th EXCEPT ![t].pc = "loop"]
    /\ UNCHANGED <<ncalls, now, msgVars, bus_at_stop, mutexVars, seatVars, dockVars, transferVars, phaseVars>>

\* notify_bus_arrival: under the stop's lock, append the bus to the stop's
\* list (created when absent) and notify_all(); return True.
notify_bus_arrival(t, stops, buses) ==
    \E b \in buses, s \in stops :
        /\ CanCall(t, MaxCondCalls)
        /\ ncalls' = ncalls + 1
        /\ IF s \notin DOMAIN stop_conditions
           THEN /\ th' = [th EXCEPT ![t] =
                            [op |-> "notify_bus_arrival", pc |-> "done", ret |-> FALSE]]
                /\ UNCHANGED bus_at_stop
           ELSE /\ stop_conditions[s] = Free
                /\ Len(bus_at_stop[s]) < MaxPresent
                /\ bus_at_stop' = [bus_at_stop EXCEPT ![s] = Append(@, b)]
                /\ th' = [Wake(NotifyAll(s)) EXCEPT ![t] =
                            [op |-> "notify_bus_arrival", pc |-> "done", ret |-> TRUE]]
        /\ UNCHANGED <<now, msgVars, stop_conditions, mutexVars, seatVars, dockVars, transferVars, phaseVars>>

\* notify_bus_departure: under the stop's lock, remove the bus from the
\* stop's list if it is there and notify_all(); return True.
notify_bus_departure(t, stops) ==
    \E b \in Buses, s \in stops :
        /\ CanCall(t, MaxCondCalls)
        /\ ncalls' = ncalls + 1
        /\ IF s \notin DOMAIN stop_conditions
           THEN /\ th' = [th EXCEPT ![t] =
                            [op |-> "notify_bus_departure", pc |-> "done", ret |-> FALSE]]
                /\ UNCHANGED bus_at_stop
           ELSE /\ stop_conditions[s] = Free
                /\ bus_at_stop' = [bus_at_stop EXCEPT ![s] =
                                      IF Contains(@, b) THEN Remove(@, b) ELSE @]
                /\ th' = [Wake(NotifyAll(s)) EXCEPT ![t] =
                            [op |-> "notify_bus_departure", pc |-> "done", ret |-> TRUE]]
        /\ UNCHANGED <<now, msgVars, stop_conditions, mutexVars, seatVars, dockVars, transferVars, phaseVars>>

----------------------------------------------------------------------------
(* ConditionSyncManager: transfers between buses                           *)

\* At most this many calls are begun in one run of a transfer scenario.
MaxTransferCalls == 4

\* The transfers the callers announce: passenger p1 from b1 to b2, and a
\* transfer that names b2 only.
TransferKeys == {<<"p1", "b1", "b2">>, <<"p1", "b2", "b2">>}

\* `self.transfers_in_progress[key] = completed`: the key is added or its
\* value replaced.
SetTransfer(transfers, k, completed) == (k :> completed) @@ transfers

\* wait_for_transfer_completion: the test of the `while`,
\* `any(not completed for (passenger, from_bus, to_bus), completed in
\*      self.transfers_in_progress.items() if from_bus == bus_id or to_bus == bus_id)`
PendingFor_SourceOnly(bus) ==
    \E k \in DOMAIN transfers_in_progress :
        ~transfers_in_progress[k] /\ k[2] = bus
PendingFor(bus) ==
    \E k \in DOMAIN transfers_in_progress :
        ~transfers_in_progress[k] /\ (k[2] = bus \/ k[3] = bus)

\* `remaining_time = timeout - (time.time() - start_time)`,
\* `if remaining_time <= 0`
Expired_Never(start, timeout) == FALSE
Expired(start, timeout) == timeout - (now - start) <= 0

\* The threads inside self.transfer_condition.wait(): notify_all() wakes
\* all of them.
ParkedOnTransfer ==
    {t \in Threads : th[t].op = "wait_for_transfer_completion" /\ th[t].pc = "parked"}

\* wait_for_transfer_completion begins: `if bus_id not in self.bus_conditions`.
wait_for_transfer_completion_call(t, buses, timeouts) ==
    \E b \in buses, d \in timeouts :
        /\ CanCall(t, MaxTransferCalls)
        /\ ncalls' = ncalls + 1
        /\ th' = [th EXCEPT ![t] =
                    IF b \notin DOMAIN bus_conditions
                    THEN Return([op |-> "wait_for_transfer_completion", pc |-> "call",
                                 bus_id |-> b, timeout |-> d, expired |-> FALSE], FALSE)
                    ELSE [op |-> "wait_for_transfer_completion", pc |-> "enter",
                          bus_id |-> b, timeout |-> d, expired |-> FALSE]]
        /\ UNCHANGED <<now, msgVars, mutexVars, seatVars, dockVars, condVars, transferVars, phaseVars>>

\* `with self.transfer_condition:` takes the lock, then `start_time = time.time()`.
\* (A call is let in only while its deadline lies within the modelled time.)
transfer_wait_enter(t) ==
    /\ th[t].op = "wait_for_transfer_completion"
    /\ th[t].pc = "enter"
    /\ transfer_condition = Free
    /\ now + th[t].timeout <= MaxTime
    /\ transfer_condition' = t
    /\ th' = [th EXCEPT ![t] = [th[t] EXCEPT !.pc = "loop"] @@ [start_time |-> now]]
    /\ UNCHANGED <<ncalls, now, msgVars, transfers_in_progress, mutexVars, seatVars, dockVars, condVars, phaseVars>>

\* One round of the loop, under the lock: the `while` test - when no record of
\* the bus is pending the `with` block is left and True returned - then the
\* test of the remaining time, which returns False from inside the block.
transfer_wait_loop(t) ==
    /\ th[t].op = "wait_for_transfer_completion"
    /\ th[t].pc = "loop"
    /\ IF ~PendingFor(th[t].bus_id)
       THEN /\ th' = [th EXCEPT ![t] = Return(th[t], TRUE)]
            /\ transfer_condition' = Free
       ELSE IF Expired(th[t].start_time, th[t].timeout)
       THEN /\ th' = [th EXCEPT ![t] = Return(th[t], FALSE)]
            /\ transfer_condition' = Free
       ELSE /\ th' = [th EXCEPT ![t].pc = "wait"]
            /\ UNCHANGED transfer_condition
    /\ UNCHANGED <<ncalls, now, msgVars, transfers_in_progress, mutexVars, seatVars, dockVars, condVars, phaseVars>>

\* `self.transfer_condition.wait(timeout=remaining_time)`: the lock is freed
\* and the thread parks.
transfer_wait_park(t) ==
    /\ th[t].op = "wait_for_transfer_completion"
    /\ th[t].pc = "wait"
    /\ transfer_condition' = Free
    /\ th' = [th EXCEPT ![t].pc = "parked"]
    /\ UNCHANGED <<ncalls, now, msgVars, transfers_in_progress, mutexVars, seatVars, dockVars, condVars, phaseVars>>

\* The wait ends because its timeout has run out; `expired` remembers that
\* no notification ended it.
transfer_wait_timed_out(t) ==
    /\ th[t].op = "wait_for_transfer_completion"
    /\ th[t].pc = "parked"
    /\ now >= th[t].start_time + th[t].timeout
    /\ th' = [th EXCEPT ![t] = [th[t] EXCEPT !.pc = "woken", !.expired = TRUE]]
    /\ UNCHANGED <<ncalls, now, msgVars, mutexVars, seatVars, dockVars, condVars, transferVars, phaseVars>>

\* The woken thread takes the lock again and goes back to the `while` test.
transfer_wait_reacquire(t) ==
    /\ th[t].op = "wait_for_transfer_completion"
    /\ th[t].pc = "woken"
    /\ transfer_condition = Free
    /\ transfer_condition' = t
    /\ th' = [th EXCEPT ![t].pc = "loop"]
    /\ UNCHANGED <<ncalls, now, msgVars, transfers_in_progress, mutexVars, seatVars, dockVars, condVars, phaseVars>>

\* start_transfer: the test of the two buses, then under the lock the record
\* is set to False and notify_all() called; return True.
start_transfer(t, keys) ==
    \E k \in keys :
        /\ CanCall(t, MaxTransferCalls)
        /\ ncalls' = ncalls + 1
        /\ IF k[2] \notin DOMAIN bus_conditions \/ k[3] \notin DOMAIN bus_conditions
           THEN /\ th' = [th EXCEPT ![t] = [op |-> "start_transfer", pc |-> "done", ret |-> FALSE]]
                /\ UNCHANGED transfers_in_progress
           ELSE /\ transfer_condition = Free
                /\ transfers_in_progress' = SetTransfer(transfers_in_progress, k, FALSE)
                /\ th' = [Wake(ParkedOnTransfer) EXCEPT ![t] =
                            [op |-> "start_transfer", pc |-> "done", ret |-> TRUE]]
        /\ UNCHANGED <<now, msgVars, transfer_condition, mutexVars, seatVars, dockVars, condVars, phaseVars>>

\* complete_transfer begins: `if (passenger_id, from_bus_id, to_bus_id) not in
\* self.transfers_in_progress: return False`, read without the lock.
\* `(passenger_id, from_bus_id, to_bus_id) in self.transfers_in_progress`
HasRecord_Always(k) == TRUE
HasRecord(k) == k \in DOMAIN transfers_in_progress

complete_transfer_call(t, keys) ==
    \E k \in keys :
        /\ CanCall(t, MaxTransferCalls)
        /\ ncalls' = ncalls + 1
        /\ th' = [th EXCEPT ![t] =
                    IF ~HasRecord(k)
                    THEN [op |-> "complete_transfer", pc |-> "done", ret |-> FALSE]
                    ELSE [op |-> "complete_transfer", pc |-> "set", transfer |-> k]]
        /\ UNCHANGED <<now, msgVars, mutexVars, seatVars, dockVars, condVars, transferVars, phaseVars>>

\* complete_transfer, under the lock: the record is set to True and
\* notify_all() called; return True.
complete_transfer_set(t) ==
    /\ th[t].op = "complete_transfer"
    /\ th[t].pc = "set"
    /\ transfer_condition = Free
    /\ transfers_in_progress' = SetTransfer(transfers_in_progress, th[t].transfer, TRUE)
    /\ th' = [Wake(ParkedOnTransfer) EXCEPT ![t] =
                [op |-> "complete_transfer", pc |-> "done", ret |-> TRUE]]
    /\ UNCHANGED <<ncalls, now, msgVars, transfer_condition, mutexVars, seatVars, dockVars, condVars, phaseVars>>

\* ConditionSyncManager.cleanup between calls: every dictionary is cleared
\* and transfer_condition set to None; return True.
condition_cleanup(t) ==
    /\ CanCall(t, MaxTransferCalls)
    /\ \A u \in Threads : Ready(u)
    /\ ncalls' = ncalls + 1
    /\ bus_conditions' = << >>
    /\ stop_conditions' = << >>
    /\ transfer_condition' = None
    /\ bus_at_stop' = << >>
    /\ boarding_complete' = << >>
    /\ alighting_complete' = << >>
    /\ transfers_in_progress' = << >>
    /\ th' = [th EXCEPT ![t] = [op |-> "cleanup", pc |-> "done", ret |-> TRUE]]
    /\ UNCHANGED <<now, msgVars, phases_started, replaced_conditions, mutexVars, seatVars, dockVars>>

----------------------------------------------------------------------------
(* ConditionSyncManager: boarding and alighting phases of a bus            *)

\* At most this many calls are begun in one run of a phase scenario.
MaxPhaseCalls == 4

Phases == {"boarding", "alighting"}

\* Identifiers a caller may pass: the seed's buses and an unknown one.
BusArgs == Buses \cup {"b9"}

\* self.boarding_complete / self.alighting_complete
PhaseFlag(ph) == IF ph = "boarding" THEN boarding_complete ELSE alighting_complete

\* `self.boarding_complete[bus_id] = v` / `self.alighting_complete[bus_id] = v`
SetPhaseFlag_AllBuses(ph, b, v) ==
    IF ph = "boarding"
    THEN /\ boarding_complete' = [c \in DOMAIN boarding_complete |-> v]
         /\ UNCHANGED alighting_complete
    ELSE /\ alighting_complete' = [c \in DOMAIN alighting_complete |-> v]
         /\ UNCHANGED boarding_complete
SetPhaseFlag(ph, b, v) ==
    IF ph = "boarding"
    THEN /\ boarding_complete' = [boarding_complete EXCEPT ![b] = v]
         /\ UNCHANGED alighting_complete
    ELSE /\ alighting_complete' = [alighting_complete EXCEPT ![b] = v]
         /\ UNCHANGED boarding_complete

WaitPhaseOp(ph) ==
    IF ph = "boarding" THEN "wait_for_boarding_completion" ELSE "wait_for_alighting_completion"

WaitPhaseOps == {WaitPhaseOp(ph) : ph \in Phases}

\* The phase a wait_for_..._completion call waits for.
PhaseOf_Boarding(o) == "boarding"
PhaseOf(o) == IF o = "wait_for_boarding_completion" THEN "boarding" ELSE "alighting"

\* The threads inside self.bus_conditions[bus_id].wait(): the bus has one
\* condition for both phases, and notify_all() wakes all of them.
ParkedOnBus_None(b) == {}
ParkedOnBus(b) ==
    {t \in Threads : th[t].op \in WaitPhaseOps /\ th[t].pc = "parked" /\ th[t].bus_id = b}

\* start_boarding / start_alighting: the test of the bus and the stop, then
\* under the bus's lock the flag is set to False and notify_all() called;
\* return True.
StartPhase(t, ph, buses, stops) ==
    \E b \in buses, s \in stops :
        /\ CanCall(t, MaxPhaseCalls)
        /\ ncalls' = ncalls + 1
        /\ IF b \notin DOMAIN bus_conditions \/ s \notin DOMAIN stop_conditions
           THEN /\ th' = [th EXCEPT ![t] = [op |-> "start_" \o ph, pc |-> "done", ret |-> FALSE]]
                /\ UNCHANGED <<boarding_complete, alighting_complete, phases_started>>
           ELSE /\ bus_conditions[b] = Free
                /\ SetPhaseFlag(ph, b, FALSE)
                /\ phases_started' = phases_started \cup {<<ph, b>>}
                /\ th' = [Wake(ParkedOnBus(b)) EXCEPT ![t] =
                            [op |-> "start_" \o ph, pc |-> "done", ret |-> TRUE]]
        /\ UNCHANGED <<now, msgVars, bus_conditions, replaced_conditions, mutexVars, seatVars, dockVars, condVars, transferVars>>

start_boarding(t, buses, stops) == StartPhase(t, "boarding", buses, stops)

start_alighting(t, buses, stops) == StartPhase(t, "alighting", buses, stops)

\* complete_boarding / complete_alighting: the test of the bus, then under
\* the bus's lock the flag is set to True and notify_all() called; return True.
CompletePhase(t, ph, buses) ==
    \E b \in buses :
        /\ CanCall(t, MaxPhaseCalls)
        /\ ncalls' = ncalls + 1
        /\ IF b \notin DOMAIN bus_conditions
           THEN /\ th' = [th EXCEPT ![t] = [op |-> "complete_" \o ph, pc |-> "done", ret |-> FALSE]]
                /\ UNCHANGED <<boarding_complete, alighting_complete>>
           ELSE /\ bus_conditions[b] = Free
                /\ SetPhaseFlag(ph, b, TRUE)
                /\ th' = [Wake(ParkedOnBus(b)) EXCEPT ![t] =
                            [op |-> "complete_" \o ph, pc |-> "done", ret |-> TRUE]]
        /\ UNCHANGED <<now, msgVars, bus_conditions, phases_started, replaced_conditions, mutexVars, seatVars, dockVars, condVars, transferVars>>

complete_boarding(t, buses) == CompletePhase(t, "boarding", buses)

complete_alighting(t, buses) == CompletePhase(t, "alighting", buses)

\* wait_for_boarding_completion / wait_for_alighting_completion begins:
\* `if bus_id not in self.bus_conditions: return False`.
WaitPhaseCall(t, ph, buses, timeouts) ==
    \E b \in buses, d \in timeouts :
        /\ CanCall(t, MaxPhaseCalls)
        /\ ncalls' = ncalls + 1
        /\ th' = [th EXCEPT ![t] =
                    IF b \notin DOMAIN bus_conditions
                    THEN Return([op |-> WaitPhaseOp(ph), pc |-> "call", bus_id |-> b, timeout |-> d], FALSE)
                    ELSE [op |-> WaitPhaseOp(ph), pc |-> "enter", bus_id |-> b, timeout |-> d]]
        /\ UNCHANGED <<now, msgVars, mutexVars, seatVars, dockVars, condVars, transferVars, phaseVars>>

wait_for_boarding_completion_call(t, buses, timeouts) == WaitPhaseCall(t, "boarding", buses, timeouts)

wait_for_alighting_completion_call(t, buses, timeouts) == WaitPhaseCall(t, "alighting", buses, timeouts)

\* `with self.bus_conditions[bus_id]:` takes the lock, then `start_time = time.time()`.
\* (A call is let in only while its deadline lies within the modelled time.)
phase_wait_enter(t) ==
    /\ th[t].op \in WaitPhaseOps
    /\ th[t].pc = "enter"
    /\ bus_conditions[th[t].bus_id] = Free
    /\ now + th[t].timeout <= MaxTime
    /\ bus_conditions' = LockAcquire(bus_conditions, th[t].bus_id, t)
    /\ th' = [th EXCEPT ![t] = [th[t] EXCEPT !.pc = "loop"] @@ [start_time |-> now]]
    /\ UNCHANGED <<ncalls, now, msgVars, boarding_complete, alighting_complete, phases_started, replaced_conditions, mutexVars, seatVars, dockVars, condVars, transferVars>>

\* One round of the loop, under the lock: the `while` test - when the flag
\* is True the `with` block is left and True returned - then the test of the
\* remaining time, which returns False from inside the block.
phase_wait_loop(t) ==
    /\ th[t].op \in WaitPhaseOps
    /\ th[t].pc = "loop"
    /\ IF PhaseFlag(PhaseOf(th[t].op))[th[t].bus_id]
       THEN /\ th' = [th EXCEPT ![t] = Return(th[t], TRUE)]
            /\ bus_conditions' = LockRelease(bus_conditions, th[t].bus_id)
       ELSE IF Expired(th[t].start_time, th[t].timeout)
       THEN /\ th' = [th EXCEPT ![t] = Return(th[t], FALSE)]
            /\ bus_conditions' = LockRelease(bus_conditions, th[t].bus_id)
       ELSE /\ th' = [th EXCEPT ![t].pc = "wait"]
            /\ UNCHANGED bus_conditions
    /\ UNCHANGED <<ncalls, now, msgVars, boarding_complete, alighting_complete, phases_started, replaced_conditions, mutexVars, seatVars, dockVars, condVars, transferVars>>

\* `self.bus_conditions[bus_id].wait(timeout=remaining_time)`: the lock is
\* freed and the thread parks.
phase_wait_park(t) ==
    /\ th[t].op \in WaitPhaseOps
    /\ th[t].pc = "wait"
    /\ bus_conditions' = LockRelease(bus_conditions, th[t].bus_id)
    /\ th' = [th EXCEPT ![t].pc = "parked"]
    /\ UNCHANGED <<ncalls, now, msgVars, boarding_complete, alighting_complete, phases_started, replaced_conditions, mutexVars, seatVars, dockVars, condVars, transferVars>>

\* The wait ends because its timeout has run out.
phase_wait_timed_out(t) ==
    /\ th[t].op \in WaitPhaseOps
    /\ th[t].pc = "parked"
    /\ now >= th[t].start_time + th[t].timeout
    /\ th' = [th EXCEPT ![t].pc = "woken"]
    /\ UNCHANGED <<ncalls, now, msgVars, mutexVars, seatVars, dockVars, condVars, transferVars, phaseVars>>

\* The woken thread takes the lock again and goes back to the `while` test.
phase_wait_reacquire(t) ==
    /\ th[t].op \in WaitPhaseOps
    /\ th[t].pc = "woken"
    /\ bus_conditions[th[t].bus_id] = Free
    /\ bus_conditions' = LockAcquire(bus_conditions, th[t].bus_id, t)
    /\ th' = [th EXCEPT ![t].pc = "loop"]
    /\ UNCHANGED <<ncalls, now, msgVars, boarding_complete, alighting_complete, phases_started, replaced_conditions, mutexVars, seatVars, dockVars, condVars, transferVars>>

----------------------------------------------------------------------------
(* ConditionSyncManager: initialize() called again                          *)

\* At most this many initialize() calls are made in one run.
MaxInits == 1

\* A wait_for_bus call whose `condition` (line 110) is no longer the object
\* registered for its stop is written "wait_for_bus_replaced"; `handle`
\* tells which initialize() call replaced the object.
ReplacedLock(t) == replaced_conditions[th[t].handle][th[t].stop_id]

SetReplacedLock(t, holder) ==
    [replaced_conditions EXCEPT ![th[t].handle][th[t].stop_id] = holder]

\* initialize(): new dictionaries with a new threading.Condition per stop and
\* per bus, both flags of every bus False, a new transfer_condition and an
\* empty transfers_in_progress; bus_at_stop is kept.  The wait_for_bus calls
\* in progress keep the condition object they fetched.  (The method is taken
\* as one step, and it is called while no call is in progress on a bus's
\* condition or on transfer_condition.)
initialize(t) ==
    /\ CanCall(t, MaxCondCalls)
    /\ Len(replaced_conditions) < MaxInits
    /\ \A u \in Threads :
            th[u].pc = "done" \/
            th[u].op \notin WaitPhaseOps \cup {"wait_for_transfer_completion", "complete_transfer"}
    /\ ncalls' = ncalls + 1
    /\ replaced_conditions' = Append(replaced_conditions, stop_conditions)
    /\ stop_conditions' = [s \in Stops |-> Free]
    /\ bus_conditions' = [b \in Buses |-> Free]
    /\ boarding_complete' = [b \in Buses |-> FALSE]
    /\ alighting_complete' = [b \in Buses |-> FALSE]
    /\ phases_started' = {}
    /\ transfer_condition' = Free
    /\ transfers_in_progress' = << >>
    /\ th' = [u \in Threads |->
                IF u = t THEN [op |-> "initialize", pc |-> "done", ret |-> TRUE]
                ELSE IF th[u].op = "wait_for_bus" /\ th[u].pc # "done"
                THEN [th[u] EXCEPT !.op = "wait_for_bus_replaced"]
                        @@ [handle |-> Len(replaced_conditions) + 1]
                ELSE th[u]]
    /\ UNCHANGED <<now, msgVars, bus_at_stop, mutexVars, seatVars, dockVars>>

\* The steps of wait_for_bus on a replaced condition object: as wait_enter,
\* wait_loop, wait_park, wait_timed_out and wait_reacquire, with the lock of
\* the object the call holds; the list of present buses is read from
\* self.bus_at_stop as before.
replaced_wait_enter(t) ==
    /\ th[t].op = "wait_for_bus_replaced"
    /\ th[t].pc = "enter"
    /\ ReplacedLock(t) = Free
    /\ now + th[t].timeout <= MaxTime
    /\ replaced_conditions' = SetReplacedLock(t, t)
    /\ th' = [th EXCEPT ![t] = [th[t] EXCEPT !.pc = "loop"] @@ [start_time |-> now]]
    /\ UNCHANGED <<ncalls, now, msgVars, stop_conditions, bus_at_stop, bus_conditions, boarding_complete, alighting_complete, phases_started, mutexVars, seatVars, dockVars, transferVars>>

replaced_wait_loop(t) ==
    /\ th[t].op = "wait_for_bus_replaced"
    /\ th[t].pc = "loop"
    /\ LET available == bus_at_stop[th[t].stop_id] IN
       IF ~InTime(th[t].start_time, th[t].timeout)
       THEN /\ th' = [th EXCEPT ![t] = [ReturnWait(th[t], TIMEOUT) EXCEPT !.op = "wait_for_bus"]]
            /\ replaced_conditions' = SetReplacedLock(t, Free)
       ELSE IF Matches(th[t].target_bus_id, available)
       THEN /\ th' = [th EXCEPT ![t] =
                        [ReturnWait(th[t], Matched(th[t].target_bus_id, available))
                            EXCEPT !.op = "wait_for_bus"]]
            /\ replaced_conditions' = SetReplacedLock(t, Free)
       ELSE /\ th' = [th EXCEPT ![t].pc = "wait"]
            /\ UNCHANGED replaced_conditions
    /\ UNCHANGED <<ncalls, now, msgVars, stop_conditions, bus_at_stop, bus_conditions, boarding_complete, alighting_complete, phases_started, mutexVars, seatVars, dockVars, transferVars>>

replaced_wait_park(t) ==
    /\ th[t].op = "wait_for_bus_replaced"
    /\ th[t].pc = "wait"
    /\ replaced_conditions' = SetReplacedLock(t, Free)
    /\ th' = [th EXCEPT ![t].pc = "parked"]
    /\ UNCHANGED <<ncalls, now, msgVars, stop_conditions, bus_at_stop, bus_conditions, boarding_complete, alighting_complete, phases_started, mutexVars, seatVars, dockVars, transferVars>>

replaced_wait_timed_out(t) ==
    /\ th[t].op = "wait_for_bus_replaced"
    /\ th[t].pc = "parked"
    /\ now >= th[t].start_time + th[t].timeout
    /\ th' = [th EXCEPT ![t].pc = "woken"]
    /\ UNCHANGED <<ncalls, now, msgVars, mutexVars, seatVars, dockVars, condVars, transferVars, phaseVars>>

replaced_wait_reacquire(t) ==
    /\ th[t].op = "wait_for_bus_replaced"
    /\ th[t].pc = "woken"
    /\ ReplacedLock(t) = Free
    /\ replaced_conditions' = SetReplacedLock(t, t)
    /\ th' = [th EXCEPT ![t].pc = "loop"]
    /\ UNCHANGED <<ncalls, now, msgVars, stop_conditions, bus_at_stop, bus_conditions, boarding_complete, alighting_complete, phases_started, mutexVars, seatVars, dockVars, transferVars>>

----------------------------------------------------------------------------
(* The state after construction and initialize().                          *)

\* bus.capacity of the seed's buses
Capacity == [b \in Buses |-> 1]

\* threading.Semaphore(2): at most two buses at a stop
DOCK_CAPACITY == 2

\* The registries SemaphoreSyncManager's methods read and write
\* (passenger_in_bus, bus_at_stop, stops_with_buses, and the stops' entries of
\* stop_queues and queue_locks) are not created by its __init__ or initialize(); they start
\* as the data model describes them: nobody aboard, no bus present, empty
\* queues.
RegistriesInit ==
    /\ passenger_in_bus = [p \in Passengers |-> None]
    /\ sem_bus_at_stop = [b \in Buses |-> None]
    /\ stops_with_buses = [s \in Stops |-> << >>]
    /\ stop_queues = [s \in Stops |-> << >>]

\* MessageBusAdapter and MessageStopAdapter (project_2): the adapters' state
\* after construction.
\* self.id = f"Bus-{bus.id}" and self.id = f"Stop-{stop.stop_id}"
BusAdapter(b)  == <<"Bus", b>>
StopAdapter(s) == <<"Stop", s>>

\* The stops that have a MessageStopAdapter.
AdapterStops == {"s1"}

\* The adapters that subscribed to MessageType.PASSENGER_BOARDING: every bus
\* adapter and every stop adapter name it in their subscribe() call.
BoardingSubscribers ==
    {BusAdapter(b) : b \in Buses} \cup {StopAdapter(s) : s \in AdapterStops}

\* At most this many boarding requests are published in one run.
MaxRequests == 2

\* broker.publish(message): every subscriber of the message's type gets an
\* on_message(message) call; the calls are made one by one, in any order.
publish(m) == {[message |-> m, to |-> a] : a \in BoardingSubscribers}

\* The message request_boarding builds (category and destination_id, which
\* no handler reads, are left out).
BoardingRequest(s, p, target) ==
    [type |-> "PASSENGER_BOARDING", sender_id |-> StopAdapter(s),
     passenger_id |-> p, stop_id |-> s, bus_id |-> target, status |-> "requested"]

\* The message publish_passenger_boarded builds (available_seats, which no
\* handler reads, is left out).
BoardingConfirmation(b, p, s) ==
    [type |-> "PASSENGER_BOARDING", sender_id |-> BusAdapter(b),
     passenger_id |-> p, stop_id |-> s, bus_id |-> b, status |-> "confirmed"]

\* Bus.can_accept_passengers(): the bus has a free seat.
can_accept_passengers(b) == Cardinality(passenger_list[b]) < Capacity[b]

\* Bus.add_passenger(passenger) succeeds when the bus has a free seat and the
\* passenger is not aboard it yet.
add_passenger_succeeds(b, p) == can_accept_passengers(b) /\ p \notin passenger_list[b]

\* The test of _handle_passenger_boarding_request: the bus is at the stop the
\* message names, it has a free seat, and the passenger the message names is
\* among the stop's waiting passengers.  Neither data['bus_id'] nor
\* data['status'] is read.
AcceptsBoardingMessage(b, m) ==
    /\ current_stop[b] # None
    /\ current_stop[b] = m.stop_id
    /\ can_accept_passengers(b)
    /\ m.passenger_id \in waiting_passengers[current_stop[b]]

\* MessageStopAdapter.request_boarding(passenger, target_bus_id)
request_boarding(s) ==
    \E p \in Passengers, target \in Buses :
        /\ Cardinality(boarding_requests) < MaxRequests
        /\ <<p, target>> \notin boarding_requests
        /\ boarding_requests' = boarding_requests \cup {<<p, target>>}
        /\ deliveries' = deliveries \cup publish(BoardingRequest(s, p, target))
        /\ UNCHANGED <<current_stop, passenger_list, waiting_passengers>>
        /\ UNCHANGED <<commonVars, mutexVars, seatVars, dockVars, condVars, transferVars, phaseVars>>

\* MessageBusAdapter.on_message for a PASSENGER_BOARDING message, with
\* _handle_passenger_boarding_request and publish_passenger_boarded.
bus_on_message(b) ==
    \E d \in deliveries :
        /\ d.to = BusAdapter(b)
        /\ LET m == d.message IN
            IF m.sender_id # BusAdapter(b) /\ AcceptsBoardingMessage(b, m)
                                          /\ add_passenger_succeeds(b, m.passenger_id)
            THEN /\ passenger_list' = [passenger_list EXCEPT ![b] = @ \cup {m.passenger_id}]
                 /\ deliveries' = (deliveries \ {d})
                                    \cup publish(BoardingConfirmation(b, m.passenger_id, m.stop_id))
            ELSE /\ deliveries' = deliveries \ {d}
                 /\ UNCHANGED passenger_list
        /\ UNCHANGED <<current_stop, waiting_passengers, boarding_requests>>
        /\ UNCHANGED <<commonVars, mutexVars, seatVars, dockVars, condVars, transferVars, phaseVars>>

\* MessageStopAdapter.on_message for a PASSENGER_BOARDING message, with
\* _handle_passenger_boarding_confirmation: Stop.remove_passenger takes the
\* passenger off the waiting list.
stop_on_message(s) ==
    \E d \in deliveries :
        /\ d.to = StopAdapter(s)
        /\ deliveries' = deliveries \ {d}
        /\ LET m == d.message IN
            IF m.sender_id # StopAdapter(s) /\ m.stop_id = s /\ m.status = "confirmed"
            THEN waiting_passengers' = [waiting_passengers EXCEPT ![s] = @ \ {m.passenger_id}]
            ELSE UNCHANGED waiting_passengers
        /\ UNCHANGED <<current_stop, passenger_list, boarding_requests>>
        /\ UNCHANGED <<commonVars, mutexVars, seatVars, dockVars, condVars, transferVars, phaseVars>>

\* No bus is on the road, nobody waits, and the broker has nothing pending.
MessagingInit ==
    /\ current_stop = [b \in Buses |-> None]
    /\ passenger_list = [b \in Buses |-> {}]
    /\ waiting_passengers = [s \in Stops |-> {}]
    /\ deliveries = {}
    /\ boarding_requests = {}

\* The three managers after construction and initialize().
ManagersInit ==
    /\ th = [t \in Threads |-> Idle]
    /\ ncalls = 0
    /\ now = 0
    /\ card_balances = InitialBalances
    /\ credited = card_balances
    /\ card_locks = [p \in Passengers |-> Free]
    /\ stop_locks = [s \in Stops |-> Free]
    /\ bus_semaphores = [b \in Buses |-> Capacity[b]]
    /\ stop_semaphores = [s \in Stops |-> DOCK_CAPACITY]
    /\ RegistriesInit
    /\ stop_conditions = [s \in Stops |-> Free]
    /\ bus_at_stop = [s \in Stops |-> << >>]
    /\ transfer_condition = Free
    /\ transfers_in_progress = << >>
    /\ bus_conditions = [b \in Buses |-> Free]
    /\ boarding_complete = [b \in Buses |-> FALSE]
    /\ alighting_complete = [b \in Buses |-> FALSE]
    /\ phases_started = {}
    /\ replaced_conditions = << >>

Init == ManagersInit /\ MessagingInit

----------------------------------------------------------------------------
(* The card ledger: concurrent pay_fare, recharge_card, refund and         *)
(* buy_monthly_pass calls.                                                  *)

LedgerNext ==
    \E t \in MutexThreads :
        \/ pay_fare_call(t)
        \/ recharge_card_call(t)
        \/ refund_call(t)
        \/ buy_monthly_pass_call(t)
        \/ card_lock_acquired(t)
        \/ card_lock_timeout(t)
        \/ debit_check(t)
        \/ balance_read(t)
        \/ balance_write(t)
        \/ card_lock_release(t)
        \/ refund_raise(t)

SpecLedger == Init /\ [][LedgerNext]_vars

\* C4: every passenger's card balance is >= 0 in every reachable state, under
\* any interleaving of pay_fare, recharge_card, refund and buy_monthly_pass
\* calls with non-negative amounts, from a non-negative initial balance.
C4_BalanceNonNegative ==
    \A p \in Passengers : card_balances[p] >= 0

\* C4's case: a debit has brought a balance to exactly 0.
C4_Witness ==
    \E t \in MutexThreads :
        /\ Returned(t, "buy_monthly_pass")
        /\ th[t].ret = TRUE
        /\ card_balances[th[t].passenger_id] = 0

InCriticalSection(t) ==
    /\ th[t].op \in {"pay_fare", "recharge_card", "buy_monthly_pass"}
    /\ th[t].pc \in {"check", "read", "write", "release"}

\* C5: a pay_fare call that obtained the passenger's lock with balance `old`:
\* if old < amount it is about to return False and the balance is still old;
\* otherwise, once it has debited, it is about to return True and the balance
\* is old - amount (one debit, not two, and nobody else's write in between).
C5_PayFareOutcome ==
    \A t \in MutexThreads :
        (th[t].op = "pay_fare" /\ InCriticalSection(t)) =>
            LET bal == card_balances[th[t].passenger_id] IN
            CASE th[t].pc = "release" ->
                    IF th[t].result
                    THEN th[t].old >= th[t].amount /\ bal = th[t].old - th[t].amount
                    ELSE th[t].old < th[t].amount /\ bal = th[t].old
              [] OTHER -> bal = th[t].old

\* C5's cases: one pay_fare about to return True after its debit while another
\* thread waits for the same card, and one about to return False.
C5_Witness ==
    \E t, u \in MutexThreads :
        /\ th[t].op = "pay_fare" /\ th[t].pc = "release" /\ th[t].result
        /\ th[u].op = "pay_fare" /\ th[u].pc = "release" /\ ~th[u].result

\* C6: no update is lost: whenever a passenger's lock is free, the balance is
\* the initial balance plus the credits minus the debits of the calls that
\* returned True.
C6_NoLostUpdate ==
    \A p \in Passengers :
        card_locks[p] = Free => card_balances[p] = credited[p]

\* C6's case: a credit and a debit on one card have both returned True and
\* the card's lock is free again.
C6_Witness ==
    \E t, u \in MutexThreads :
        /\ Returned(t, "recharge_card") /\ th[t].ret = TRUE /\ th[t].amount > 0
        /\ Returned(u, "pay_fare") /\ th[u].ret = TRUE
        /\ th[t].passenger_id = th[u].passenger_id
        /\ card_locks[th[t].passenger_id] = Free

----------------------------------------------------------------------------
(* Stops: concurrent board_passenger and alight_passengers calls of        *)
(* MutexSyncManager.                                                        *)

StopLockSteps(t) ==
    \/ stop_lock_acquired(t)
    \/ stop_lock_timeout(t)
    \/ board_name_error(t)
    \/ alight_done_release(t)

StopLockNext ==
    \E t \in Threads :
        \/ mutex_board_passenger_call(t, StopArgs, MaxStopCalls)
        \/ alight_passengers_call(t, StopArgs, MaxStopCalls)
        \/ StopLockSteps(t)

SpecStopLock == Init /\ [][StopLockNext]_vars

\* C17: at most one thread at a time is inside the boarding/alighting
\* critical section of a given stop, and the thread inside is the one that
\* holds the stop's lock.
C17_OneWorkerPerStop ==
    \A s \in Stops :
        /\ Cardinality({t \in Threads : AtStop(t, s)}) <= 1
        /\ \A t \in Threads : AtStop(t, s) => stop_locks[s] = t

\* C17's case: a board_passenger and an alight_passengers call are inside
\* the critical sections of two different stops at the same time, while a
\* third call waits for the lock of one of them.
C17_Witness ==
    /\ AtStop("t1", "s1") /\ th["t1"].op = "mutex_board_passenger"
    /\ AtStop("t2", "s2") /\ th["t2"].op = "alight_passengers"
    /\ th["t3"].op \in StopOps /\ th["t3"].pc = "acquire" /\ th["t3"].stop = "s1"

----------------------------------------------------------------------------
(* MutexSyncManager as a whole: the four card operations and the two stop  *)
(* operations called concurrently by two threads.                           *)

MutexNext ==
    \/ LedgerNext
    \/ \E t \in MutexThreads :
        \/ mutex_board_passenger_call(t, StopArgs, MaxLedgerCalls)
        \/ alight_passengers_call(t, StopArgs, MaxLedgerCalls)
        \/ StopLockSteps(t)

SpecMutex == Init /\ [][MutexNext]_vars

\* Thread t is between a successful lock.acquire on card p and the
\* `finally: lock.release()` of the same call.
HoldsCard(t, p) == InCriticalSection(t) /\ th[t].passenger_id = p

\* C18: every card and stop operation releases the lock it took on every
\* exit path: a lock that is held is held by a thread whose operation on
\* that card or stop is still in progress, so when no operation is in
\* progress on a card or stop its lock is free.
C18_LockHeldOnlyInProgress ==
    /\ \A p \in Passengers :
        card_locks[p] = Free \/ \E t \in MutexThreads : card_locks[p] = t /\ HoldsCard(t, p)
    /\ \A s \in Stops :
        stop_locks[s] = Free \/ \E t \in MutexThreads : stop_locks[s] = t /\ AtStop(t, s)

\* C18's case: every call has ended, by each kind of exit that follows a
\* successful acquire - the early `return False` of an insufficient balance
\* (buy_monthly_pass on p1, the only card call made, so it met no
\* contention), and the exception leaving board_passenger - and the locks
\* are free.
C18_Witness ==
    /\ \E t \in MutexThreads :
        /\ Returned(t, "buy_monthly_pass")
        /\ th[t].passenger_id = "p1" /\ ReturnedFalse(th[t])
    /\ \E u \in MutexThreads :
        /\ Returned(u, "mutex_board_passenger")
        /\ Raised(th[u])
    /\ ncalls = 2
    /\ \A p \in Passengers : card_locks[p] = Free
    /\ \A s \in Stops : stop_locks[s] = Free

\* The step on which thread t's refund call on a card whose lock is free
\* passes `with lock.aquire(timeout=2):` and ends.
RefundEnds(t) ==
    /\ th[t].op = "refund" /\ th[t].pc = "acquire"
    /\ card_locks[th[t].passenger_id] = Free
    /\ th'[t].pc = "done"

\* C19: a refund on a known passenger whose lock can be obtained returns
\* success, and the passenger's balance becomes the old balance plus the
\* amount.
C19_RefundCredits ==
    [][\A t \in MutexThreads :
        RefundEnds(t) =>
            /\ ~Raised(th'[t]) /\ th'[t].ret = TRUE
            /\ card_balances'[th[t].passenger_id] =
                    Credit(card_balances[th[t].passenger_id], th[t].amount)]_vars

\* The step on which a call of thread t gives up after lock.acquire(timeout=2)
\* returned False: the card's or stop's lock was held throughout.
AcquireTimesOut(t) ==
    /\ th[t].pc = "acquire" /\ th'[t].pc = "done"
    /\ \/ /\ th[t].op \in {"pay_fare", "recharge_card", "buy_monthly_pass"}
          /\ card_locks[th[t].passenger_id] # Free
       \/ /\ th[t].op \in StopOps
          /\ stop_locks[th[t].stop] # Free

\* C20: an operation that cannot obtain the lock within its acquisition
\* timeout returns False and changes no balance and no lock.
C20_TimeoutChangesNothing ==
    [][\A t \in MutexThreads :
        AcquireTimesOut(t) =>
            /\ ReturnedFalse(th'[t])
            /\ card_balances' = card_balances
            /\ card_locks' = card_locks
            /\ stop_locks' = stop_locks]_vars

\* C20's case: a pay_fare has returned False for a card with enough money
\* while the other thread still holds the card's lock, and no balance has
\* changed.
C20_Witness ==
    /\ Returned("t1", "pay_fare") /\ ReturnedFalse(th["t1"])
    /\ th["t1"].passenger_id = "p2"
    /\ HoldsCard("t2", "p2") /\ th["t2"].pc = "check"
    /\ card_balances = InitialBalances
    /\ ncalls = 2

----------------------------------------------------------------------------
(* MutexSyncManager: cleanup() called among the stop operations.           *)

MutexCleanupNext ==
    \/ StopLockNext
    \/ \E t \in Threads : mutex_cleanup(t, MaxStopCalls)

SpecMutexCleanup == Init /\ [][MutexCleanupNext]_vars

\* C27: cleanup() returns success from every reachable state, and once it
\* has returned the manager's registries (card balances, card locks, stop
\* locks) are empty.
C27_CleanupSucceeds ==
    \A t \in Threads :
        Returned(t, "cleanup") =>
            /\ ~Raised(th[t]) /\ th[t].ret = TRUE
            /\ DOMAIN card_balances = {}
            /\ DOMAIN card_locks = {}
            /\ DOMAIN stop_locks = {}

----------------------------------------------------------------------------
(* Bus seats: concurrent board_passenger and alight_passenger calls.       *)

SeatNext ==
    \E t \in Threads :
        \/ board_passenger_call(t)
        \/ board_acquired(t)
        \/ board_timeout(t)
        \/ board_record(t)
        \/ alight_passenger_call(t)
        \/ alight_compare(t)
        \/ alight_delete(t)
        \/ alight_release(t)

SpecSeat == Init /\ [][SeatNext]_vars

AlightEndsAtTest(t) ==
    /\ \/ Ready(t) /\ th'[t] # th[t]
       \/ th[t].op = "alight_passenger" /\ th[t].pc = "compare"
    /\ th'[t].op = "alight_passenger"
    /\ th'[t].pc = "done"

NoSeatCallInProgress == \A t \in Threads : Ready(t)

OneBusNext ==
    \E t \in Threads :
        \/ board_passenger_call(t) /\ th'[t].bus_id = "b1"
        \/ board_acquired(t)
        \/ board_timeout(t)
        \/ board_record(t)
        \/ alight_passenger_call(t) /\ th'[t].bus_id = "b1"
        \/ alight_compare(t)
        \/ alight_delete(t)
        \/ alight_release(t)

SpecOneBus == Init /\ [][OneBusNext]_vars

\* Thread t's board_passenger call waits for a seat unit.
Boarding(t) == th[t].op = "board_passenger" /\ th[t].pc = "acquire"

\* The step on which thread t's board_passenger / alight_passenger call
\* returns v.
SeatCallReturns(t, o, v) ==
    /\ th[t].op = o /\ th[t].pc # "done"
    /\ th'[t].pc = "done" /\ ~Raised(th'[t]) /\ th'[t].ret = v

----------------------------------------------------------------------------
(* Stop docks: concurrent bus_arrive_at_stop and bus_depart_from_stop calls. *)

DockNext ==
    \E t \in DockThreads :
        \/ bus_arrive_at_stop_call(t)
        \/ arrive_at_head(t)
        \/ arrive_queue_timeout(t)
        \/ arrive_acquired(t)
        \/ arrive_dock_timeout(t)
        \/ arrive_dequeue(t)
        \/ arrive_record_bus(t)
        \/ arrive_record_stop(t)
        \/ bus_depart_from_stop_call(t)
        \/ depart_compare(t)
        \/ depart_release(t)
        \/ depart_delete(t)
        \/ depart_remove(t)

SpecDock == Init /\ [][DockNext]_vars

NoDockCallInProgress == \A t \in Threads : Ready(t)

Occurrences(list, x) == Cardinality({i \in 1..Len(list) : list[i] = x})

Queued(s, b) ==
    {t \in DockThreads : /\ th[t].op = "bus_arrive_at_stop"
                         /\ th[t].pc \in {"poll", "acquire", "dequeue"}
                         /\ th[t].stop_id = s /\ th[t].bus_id = b}

ArriveTimesOut(t) ==
    /\ th[t].op = "bus_arrive_at_stop"
    /\ th[t].pc \in {"poll", "acquire"}
    /\ th'[t].pc = "done"

----------------------------------------------------------------------------
(* Stop docks with the clock: bus_arrive_at_stop calls at s1, whose two     *)
(* docks are never freed.                                                   *)

TimedArriveSteps(t) ==
    \/ timed_poll(t)
    \/ timed_sleep_done(t)
    \/ timed_acquired(t)
    \/ timed_dock_timeout(t)
    \/ arrive_dequeue(t)
    \/ arrive_record_bus(t)
    \/ arrive_record_stop(t)

DockTimedNext ==
    \/ PromptDockTick
    \/ \E t \in DockThreads :
        \/ timed_bus_arrive_at_stop_call(t, Buses, DockStops, DockTimeouts)
        \/ TimedArriveSteps(t)

SpecDockTimed == Init /\ [][DockTimedNext]_vars

\* The step on which thread t's bus_arrive_at_stop call returns.
ArriveReturns(t) ==
    th[t].op = "bus_arrive_at_stop" /\ th[t].pc # "done" /\ th'[t].pc = "done"

----------------------------------------------------------------------------
(* Waiting for a bus: concurrent wait_for_bus, notify_bus_arrival and      *)
(* notify_bus_departure calls while the clock runs.                         *)

\* The targets a waiting passenger passes: any bus, or bus b1.
Targets == {None, "b1"}

WaitSteps(t) ==
    \/ wait_enter(t)
    \/ wait_loop(t)
    \/ wait_park(t)
    \/ wait_timed_out(t)
    \/ wait_reacquire(t)

\* The stop the passengers of the waiting scenarios wait at.
WaitStops == {"s1"}

\* The passenger threads and the bus thread of the waiting scenarios.
Waiters  == {"t1", "t2"}
Notifier == "t3"

CondNext ==
    \/ Tick
    \/ \E t \in Waiters :
        \/ wait_for_bus_call(t, WaitStops, Targets, Timeouts)
        \/ WaitSteps(t)
    \/ notify_bus_arrival(Notifier, WaitStops, Buses)
    \/ notify_bus_departure(Notifier, WaitStops)

SpecCond == Init /\ [][CondNext]_vars

\* A wait_for_bus call of thread t is in progress (begun, not yet returned).
Waiting(t) == th[t].op = "wait_for_bus" /\ th[t].pc # "done"

\* The step on which thread t's wait_for_bus call returns.
WaitReturns(t) == Waiting(t) /\ th'[t].pc = "done"

C38_PresentBusesAreASet ==
    \A s \in DOMAIN bus_at_stop, b \in Buses : Occurrences(bus_at_stop[s], b) <= 1

----------------------------------------------------------------------------
(* A bus that is already there: bus b1 is announced at the stop before any *)
(* passenger begins to wait, and never departs.                             *)

ArrivedFirstNext ==
    \/ Tick
    \/ \E t \in Waiters :
        \/ wait_for_bus_call(t, WaitStops, Targets, Timeouts)
        \/ WaitSteps(t)
    \/ /\ \A t \in Waiters : th[t] = Idle
       /\ notify_bus_arrival(Notifier, WaitStops, {"b1"})

SpecArrivedFirst == Init /\ [][ArrivedFirstNext]_vars

----------------------------------------------------------------------------
(* One announcement for all: passengers wait at the stop, the clock stands *)
(* still (no deadline runs out), and the bus thread makes one              *)
(* notify_bus_arrival of b1 and nothing else.                               *)

BroadcastNext ==
    \/ \E t \in Waiters :
        \/ wait_for_bus_call(t, WaitStops, Targets, {1})
        \/ wait_enter(t)
        \/ wait_loop(t)
        \/ wait_park(t)
        \/ wait_reacquire(t)
    \/ /\ th[Notifier] = Idle
       /\ notify_bus_arrival(Notifier, WaitStops, {"b1"})

\* Every passenger thread that can take a step eventually takes one.
BroadcastFairness ==
    \A t \in Waiters :
        WF_vars(wait_enter(t) \/ wait_loop(t) \/ wait_park(t) \/ wait_reacquire(t))

SpecBroadcast == Init /\ [][BroadcastNext]_vars /\ BroadcastFairness

----------------------------------------------------------------------------
(* A stop without buses: passengers wait while the clock runs; the bus     *)
(* thread only announces departures, so no bus is ever present.             *)

NoBusNext ==
    \/ Tick
    \/ \E t \in Waiters :
        \/ wait_for_bus_call(t, WaitStops, Targets, Timeouts)
        \/ WaitSteps(t)
    \/ notify_bus_departure(Notifier, WaitStops)

\* The clock runs on, and every passenger thread that can take a step
\* eventually takes one.
NoBusFairness ==
    /\ WF_vars(Tick)
    /\ \A t \in Waiters : WF_vars(WaitSteps(t))

SpecNoBus == Init /\ [][NoBusNext]_vars /\ NoBusFairness

----------------------------------------------------------------------------
(* Transfers: buses wait for the transfers that name them while passengers *)
(* start and complete transfers and the clock runs.                         *)

TransferWaitSteps(t) ==
    \/ transfer_wait_enter(t)
    \/ transfer_wait_loop(t)
    \/ transfer_wait_park(t)
    \/ transfer_wait_timed_out(t)
    \/ transfer_wait_reacquire(t)

TransferNext ==
    \/ Tick
    \/ \E t \in Waiters :
        \/ wait_for_transfer_completion_call(t, Buses, Timeouts)
        \/ TransferWaitSteps(t)
    \/ start_transfer(Notifier, TransferKeys)
    \/ complete_transfer_call(Notifier, TransferKeys)
    \/ complete_transfer_set(Notifier)

SpecTransfer == Init /\ [][TransferNext]_vars

\* A wait_for_transfer_completion call of thread t is in progress.
WaitingTransfer(t) == th[t].op = "wait_for_transfer_completion" /\ th[t].pc # "done"

\* The step on which thread t's wait_for_transfer_completion call returns.
WaitTransferReturns(t) == WaitingTransfer(t) /\ th'[t].pc = "done"

----------------------------------------------------------------------------
(* One transfer: passenger p1's transfer from b1 to b2 is started once and *)
(* then, perhaps, completed once, while buses wait and the clock runs.      *)

TheTransfer == <<"p1", "b1", "b2">>

TransferOnceNext ==
    \/ Tick
    \/ \E t \in Waiters :
        \/ wait_for_transfer_completion_call(t, Buses, Timeouts)
        \/ TransferWaitSteps(t)
    \/ /\ th[Notifier] = Idle
       /\ start_transfer(Notifier, {TheTransfer})
    \/ /\ Returned(Notifier, "start_transfer")
       /\ complete_transfer_call(Notifier, {TheTransfer})
    \/ complete_transfer_set(Notifier)

\* The clock runs on, and every waiting thread that can take a step
\* eventually takes one.  Nothing obliges the passenger to complete.
TransferOnceFairness ==
    /\ WF_vars(Tick)
    /\ \A t \in Waiters : WF_vars(TransferWaitSteps(t))

SpecTransferOnce == Init /\ [][TransferOnceNext]_vars /\ TransferOnceFairness

TransferCompleted ==
    /\ TheTransfer \in DOMAIN transfers_in_progress
    /\ transfers_in_progress[TheTransfer]

C24_CompletedRecordRemoved ==
    \A k \in DOMAIN transfers_in_progress :
        transfers_in_progress[k] =>
            \E t \in Threads :
                \/ th[t].op = "complete_transfer" /\ th[t].pc # "done"
                \/ WaitingTransfer(t) /\ th[t].bus_id \in {k[2], k[3]}

----------------------------------------------------------------------------
(* Transfers and cleanup: transfers are started and completed while buses   *)
(* wait, and between two calls the manager may be cleaned up.               *)

TransferCleanupNext ==
    \/ Tick
    \/ \E t \in Waiters :
        \/ wait_for_transfer_completion_call(t, {"b1"}, Timeouts)
        \/ TransferWaitSteps(t)
    \/ start_transfer(Notifier, TransferKeys)
    \/ complete_transfer_call(Notifier, TransferKeys)
    \/ complete_transfer_set(Notifier)
    \/ condition_cleanup(Notifier)

SpecTransferCleanup == Init /\ [][TransferCleanupNext]_vars

\* The step on which thread t begins a call of method o.
Begins(t, o) == Ready(t) /\ th'[t] # th[t] /\ th'[t].op = o

\* C33: complete_transfer for a triple without a record (start_transfer
\* never called for it, or cleanup removed it) ends at its test: it returns
\* False, leaves transfers_in_progress as it is and wakes no thread; only a
\* call whose triple has a record goes on to set it, so a record is created
\* by start_transfer alone.
C33_CompleteWithoutRecordFails ==
    [][\A t \in Threads :
        /\ (Begins(t, "complete_transfer") /\ th'[t].pc = "done") =>
                /\ th'[t].ret = FALSE
                /\ transfers_in_progress' = transfers_in_progress
                /\ \A u \in Threads \ {t} : th'[u] = th[u]
        /\ (Begins(t, "complete_transfer") /\ th'[t].pc # "done") =>
                th'[t].transfer \in DOMAIN transfers_in_progress
        /\ (th[t].op = "complete_transfer" /\ th[t].pc = "set") =>
                DOMAIN transfers_in_progress' = DOMAIN transfers_in_progress]_vars

\* C33's case: a transfer naming b1 was started and a bus waited for it
\* until its timeout; cleanup then removed the record, and the
\* complete_transfer that followed has returned False and created nothing.
C33_Witness ==
    /\ transfer_condition = None
    /\ transfers_in_progress = << >>
    /\ Returned(Notifier, "complete_transfer") /\ th[Notifier].ret = FALSE
    /\ Returned("t1", "wait_for_transfer_completion")
    /\ th["t1"].expired /\ th["t1"].ret = FALSE

----------------------------------------------------------------------------
(* Phases: concurrent start_/complete_/wait_for_ boarding and alighting    *)
(* calls on the buses.                                                      *)

PhaseWaitSteps(t) ==
    \/ phase_wait_enter(t)
    \/ phase_wait_loop(t)
    \/ phase_wait_park(t)
    \/ phase_wait_timed_out(t)
    \/ phase_wait_reacquire(t)

\* The buses named in the scenario: one of the seed and an unknown one.
PhaseBuses == {"b1", "b9"}

PhaseNext ==
    \/ Tick
    \/ \E t \in Waiters :
        \/ wait_for_boarding_completion_call(t, PhaseBuses, Timeouts)
        \/ wait_for_alighting_completion_call(t, PhaseBuses, Timeouts)
        \/ PhaseWaitSteps(t)
    \/ start_boarding(Notifier, PhaseBuses, {"s1"})
    \/ start_alighting(Notifier, PhaseBuses, {"s1"})
    \/ complete_boarding(Notifier, PhaseBuses)
    \/ complete_alighting(Notifier, PhaseBuses)

SpecPhase == Init /\ [][PhaseNext]_vars

\* C25: a phase flag is COMPLETE (True) only after a start of that phase on
\* that bus: complete_boarding / complete_alighting turns the flag from
\* PENDING to COMPLETE inside a phase opened by the matching start.
C25_CompleteOnlyAfterStart ==
    \A ph \in Phases, b \in Buses :
        PhaseFlag(ph)[b] => <<ph, b>> \in phases_started

\* A wait_for_boarding_completion / wait_for_alighting_completion call of
\* thread t on a bus of the seed is in progress.
WaitingPhase(t) ==
    th[t].op \in WaitPhaseOps /\ th[t].pc # "done" /\ th[t].bus_id \in Buses

\* The flag thread t's call waits for, as the dictionaries hold it.
AwaitedFlag(t) ==
    IF th[t].op = "wait_for_boarding_completion"
    THEN boarding_complete[th[t].bus_id]
    ELSE alighting_complete[th[t].bus_id]

----------------------------------------------------------------------------
(* initialize() called while passengers wait at stop s1 and b1 arrives.     *)

ReplacedWaitSteps(t) ==
    \/ replaced_wait_enter(t)
    \/ replaced_wait_loop(t)
    \/ replaced_wait_park(t)
    \/ replaced_wait_timed_out(t)
    \/ replaced_wait_reacquire(t)

ReinitNext ==
    \/ Tick
    \/ \E t \in Waiters :
        \/ wait_for_bus_call(t, WaitStops, Targets, Timeouts)
        \/ WaitSteps(t)
        \/ ReplacedWaitSteps(t)
    \/ initialize(Notifier)
    \/ notify_bus_arrival(Notifier, WaitStops, {"b1"})

SpecReinit == Init /\ [][ReinitNext]_vars

\* Thread t is inside condition.wait() of a wait_for_bus call, on the
\* stop's registered condition or on one that initialize() has replaced.
ParkedInWaitForBus(t) ==
    th[t].op \in {"wait_for_bus", "wait_for_bus_replaced"} /\ th[t].pc = "parked"

----------------------------------------------------------------------------
(* The three kinds of condition of ConditionSyncManager used together:     *)
(* passengers and buses wait at stop s1, on bus b1 and on the transfers of  *)
(* b1 while a third thread notifies, starts and completes.                  *)

LocksNext ==
    \/ Tick
    \/ \E t \in Waiters :
        \/ wait_for_bus_call(t, WaitStops, {None}, {1})
        \/ WaitSteps(t)
        \/ wait_for_boarding_completion_call(t, {"b1"}, {1})
        \/ PhaseWaitSteps(t)
        \/ wait_for_transfer_completion_call(t, {"b1"}, {1})
        \/ TransferWaitSteps(t)
    \/ notify_bus_arrival(Notifier, WaitStops, {"b1"})
    \/ start_boarding(Notifier, {"b1"}, WaitStops)
    \/ complete_boarding(Notifier, {"b1"})
    \/ start_transfer(Notifier, {TheTransfer})
    \/ complete_transfer_call(Notifier, {TheTransfer})
    \/ complete_transfer_set(Notifier)

SpecLocks == Init /\ [][LocksNext]_vars

\* The locks (of stop conditions, bus conditions and the transfer
\* condition) that thread t holds.
LocksHeld(t) ==
    {<<"stop", s>> : s \in {x \in Stops : stop_conditions[x] = t}}
        \cup {<<"bus", b>> : b \in {x \in Buses : bus_conditions[x] = t}}
        \cup (IF transfer_condition = t THEN {<<"transfer", "all">>} ELSE {})

\* Thread t is about to take a lock (entering a `with` block, or coming back
\* from wait()); LockWanted is the thread holding that lock, or Free.
TakingLock(t) ==
    \/ th[t].op \in {"wait_for_bus", "wait_for_transfer_completion"} \cup WaitPhaseOps
            /\ th[t].pc \in {"enter", "woken"}
    \/ th[t].op = "complete_transfer" /\ th[t].pc = "set"

LockWanted(t) ==
    IF th[t].op = "wait_for_bus" THEN stop_conditions[th[t].stop_id]
    ELSE IF th[t].op \in WaitPhaseOps THEN bus_conditions[th[t].bus_id]
    ELSE transfer_condition

----------------------------------------------------------------------------
(* Outcomes of the managers' methods.                                       *)

\* C21: every manager method ends by returning an outcome to its caller and
\* never by an exception: no thread's call has ended with an exception
\* leaving the method.
C21_NoCallRaises ==
    \A t \in Threads : ~Raised(th[t])

----------------------------------------------------------------------------
(* Calls made with an identifier the seed does not have: passenger p9,     *)
(* stop s9 or bus b9.  Every call of this scenario names at least one.      *)

UnknownTransfers == {<<"p9", "b1", "b2">>, <<"p1", "b9", "b2">>}

UnknownArgsNext ==
    \E t \in Threads :
        \/ \E o \in {"pay_fare", "recharge_card", "refund", "buy_monthly_pass"} :
                LedgerCall(t, o, "p9", DEFAULT_FARE)
        \/ mutex_board_passenger_call(t, {"s9"}, MaxStopCalls)
        \/ alight_passengers_call(t, {"s9"}, MaxStopCalls)
        \/ wait_for_bus_call(t, {"s9"}, Targets, Timeouts)
        \/ notify_bus_arrival(t, {"s9"}, Buses)
        \/ notify_bus_arrival(t, {"s1"}, {"b9"})
        \/ notify_bus_departure(t, {"s9"})
        \/ wait_for_transfer_completion_call(t, {"b9"}, Timeouts)
        \/ start_transfer(t, UnknownTransfers)

SpecUnknownArgs == Init /\ [][UnknownArgsNext]_vars

\* C22: wait_for_bus on an unknown stop ends with an outcome other than the
\* timeout outcome (the value returned when the deadline elapses on a known
\* stop), so that the caller can tell the two apart.
C22_UnknownStopIsNotTimeout ==
    \A t \in Threads : Returned(t, "wait_for_bus") => th[t].ret # TIMEOUT

\* The outcome of a call is a failure: False, or -1 from wait_for_bus.
FailureOutcome(r) ==
    /\ ~Raised(r)
    /\ IF r.op = "wait_for_bus" THEN r.ret = TIMEOUT ELSE r.ret = FALSE

\* C23: a call made with an unknown passenger, stop or bus returns a failure
\* outcome, takes no lock, semaphore unit or queue position, and leaves every
\* balance, list of present buses, transfer record and queue as it was.
C23_UnknownIdChangesNothing ==
    [][\A t \in Threads :
        (Ready(t) /\ th'[t] # th[t]) =>
            /\ th'[t].pc = "done"
            /\ FailureOutcome(th'[t])
            /\ UNCHANGED <<mutexVars, seatVars, dockVars, condVars, transferVars, phaseVars>>]_vars

----------------------------------------------------------------------------
(* Waits that nothing ends, while the clock runs.  A run uses one manager:  *)
(* either passengers wait on ConditionSyncManager for a bus at a stop where *)
(* none arrives, for phases that are never completed and for a transfer     *)
(* that stays pending; or threads board a bus and dock at a stop of         *)
(* SemaphoreSyncManager whose seats and docks are never given back.         *)

\* At most this many calls are begun in one run of the scenario.
MaxBlockingCalls == 5

\* The timeout every blocking call of the scenario is given, in clock ticks.
BlockTimeouts == {1}

CondOps ==
    {"wait_for_bus", "wait_for_transfer_completion", "start_transfer"} \cup WaitPhaseOps

SemOps == {"board_passenger", "bus_arrive_at_stop"}

\* No call of the other manager was made in this run.
OnlyCondCalls == \A t \in Threads : th[t].op \notin SemOps
OnlySemCalls == \A t \in Threads : th[t].op \notin CondOps

TimedBoardSteps(t) ==
    \/ timed_board_acquired(t)
    \/ timed_board_timeout(t)
    \/ board_record(t)

CondWaitSteps(t) ==
    \/ WaitSteps(t)
    \/ PhaseWaitSteps(t)
    \/ TransferWaitSteps(t)

SemWaitSteps(t) ==
    \/ TimedBoardSteps(t)
    \/ TimedArriveSteps(t)

\* time.time() advances.  In a run on SemaphoreSyncManager a thread inside
\* bus_arrive_at_stop that waits for nothing goes on before the next tick.
BlockingTick ==
    \/ /\ \E t \in Threads : th[t].op \in CondOps
       /\ Tick
    \/ /\ OnlySemCalls
       /\ PromptDockTick

\* The steps of thread t's call, whichever it is.
BlockingSteps(t) ==
    \/ CondWaitSteps(t)
    \/ SemWaitSteps(t)

BlockingNext ==
    \/ BlockingTick
    \/ /\ OnlyCondCalls
       /\ ncalls < MaxBlockingCalls
       /\ \/ \E t \in Waiters :
                \/ wait_for_bus_call(t, WaitStops, {None}, BlockTimeouts)
                \/ wait_for_boarding_completion_call(t, {"b1"}, BlockTimeouts)
                \/ wait_for_alighting_completion_call(t, {"b1"}, BlockTimeouts)
                \/ wait_for_transfer_completion_call(t, {"b1"}, BlockTimeouts)
          \/ /\ transfers_in_progress = << >>
             /\ start_transfer(Notifier, {TheTransfer})
    \/ /\ OnlySemCalls
       /\ ncalls < MaxBlockingCalls
       /\ \E t \in DockThreads :
            \/ timed_board_passenger_call(t, {"b1"}, {"p1"}, BlockTimeouts)
            \/ timed_bus_arrive_at_stop_call(t, Buses, DockStops, BlockTimeouts)
    \/ \E t \in Threads : BlockingSteps(t)

\* The clock runs on, and every thread that can take a step of its call
\* eventually takes one.  Nothing obliges a thread to begin a call.
BlockingFairness ==
    /\ WF_vars(BlockingTick)
    /\ \A t \in Waiters \cup DockThreads : WF_vars(BlockingSteps(t))

SpecBlocking == Init /\ [][BlockingNext]_vars /\ BlockingFairness

BlockingOps ==
    {"wait_for_bus", "wait_for_transfer_completion", "board_passenger", "bus_arrive_at_stop"}
        \cup WaitPhaseOps

\* Thread t is inside a blocking call: past the entry of its `with` block
\* for a condition wait, past the identifier test for a semaphore wait.
Blocked(t) == th[t].op \in BlockingOps /\ th[t].pc \notin {"done", "enter"}

----------------------------------------------------------------------------
(* Boarding by message: a stop adapter publishes boarding requests, the    *)
(* broker hands every PASSENGER_BOARDING message to the bus adapters and   *)
(* the stop adapter.                                                       *)

\* Where the buses stand and who waits at the stops when the first request
\* is published: any placement of the buses, any passengers waiting, a
\* passenger at one stop at most.
MessagingInputs ==
    /\ current_stop \in [Buses -> Stops \cup {None}]
    /\ passenger_list = [b \in Buses |-> {}]
    /\ waiting_passengers \in [Stops -> SUBSET Passengers]
    /\ waiting_passengers["s1"] \cap waiting_passengers["s2"] = {}
    /\ deliveries = {}
    /\ boarding_requests = {}

MessagingNext ==
    \/ \E s \in AdapterStops : request_boarding(s)
    \/ \E b \in Buses : bus_on_message(b)
    \/ \E s \in AdapterStops : stop_on_message(s)

MessagingScenarioInit == ManagersInit /\ MessagingInputs

SpecMessaging == MessagingScenarioInit /\ [][MessagingNext]_vars

\* C39: a boarding request published by request_boarding(passenger,
\* target_bus_id) makes only the bus whose id is target_bus_id board the
\* passenger: whenever passenger p is aboard bus b, a request for p that
\* names b as its target has been published.  (Hence one request puts the
\* passenger aboard one bus at most, and a bus that is not the target adds
\* the passenger neither on the request nor on the confirmation.)
C39_OnlyTargetBusBoards ==
    \A b \in Buses : \A p \in passenger_list[b] : <<p, b>> \in boarding_requests

----------------------------------------------------------------------------
(* Operations on different entities: two threads, each working on the card *)
(* of its own passenger and on the seats and the phases of its own bus.    *)

\* At most this many calls are begun in one run of the scenario.
MaxEntityCalls == 3

EntityThreads == {"t1", "t2"}

LedgerOps == {"pay_fare", "recharge_card", "refund", "buy_monthly_pass"}
SeatOps   == {"board_passenger", "alight_passenger"}
PhaseOps  == {"start_boarding", "complete_boarding", "start_alighting", "complete_alighting"}

\* Each thread works on entities of its own: t1 on passenger p1 and bus b1,
\* t2 on passenger p2 and bus b2.
OwnPassenger == [t \in EntityThreads |-> IF t = "t1" THEN "p1" ELSE "p2"]
OwnBus       == [t \in EntityThreads |-> IF t = "t1" THEN "b1" ELSE "b2"]

\* The arguments of the scenario's calls: the thread's own passenger and bus,
\* the default fare, a recharge of 70.
EntityArgs ==
    \A t \in EntityThreads :
        /\ th'[t].op \in LedgerOps =>
            /\ th'[t].passenger_id = OwnPassenger[t]
            /\ th'[t].amount \in {DEFAULT_FARE, 70, PASS_COST}
        /\ th'[t].op \in SeatOps =>
            /\ th'[t].passenger_id = OwnPassenger[t]
            /\ th'[t].bus_id = OwnBus[t]

PhaseCalls ==
    \E t \in EntityThreads :
        \/ start_boarding(t, {OwnBus[t]}, {"s1"})
        \/ complete_boarding(t, {OwnBus[t]})
        \/ start_alighting(t, {OwnBus[t]}, {"s1"})
        \/ complete_alighting(t, {OwnBus[t]})

EntityNext ==
    /\ \/ LedgerNext
       \/ SeatNext
       \/ PhaseCalls
    /\ EntityArgs
    /\ ncalls' <= MaxEntityCalls
    /\ \A t \in Threads \ EntityThreads : th'[t] = th[t]

SpecEntities == Init /\ [][EntityNext]_vars

\* The thread whose call this step belongs to.
Acts(t) == th'[t] # th[t]

\* Every card but p's keeps its balance and its lock; every bus but b keeps
\* its seat count; every phase flag but flag ph of bus b keeps its value.
OtherCardsUnchanged(p) ==
    \A q \in Passengers \ {p} :
        card_balances'[q] = card_balances[q] /\ card_locks'[q] = card_locks[q]
OtherSeatsUnchanged(b) ==
    \A c \in Buses \ {b} : bus_semaphores'[c] = bus_semaphores[c]
OtherFlagsUnchanged(ph, b) ==
    \A f \in Phases, c \in Buses :
        <<f, c>> # <<ph, b>> => PhaseFlag(f)'[c] = PhaseFlag(f)[c]

\* C40: operations on one entity leave every other entity's state
\* unchanged: a step of a ledger call on passenger p changes no other
\* passenger's balance or lock, a step of board_passenger / alight_passenger
\* on bus b changes no other bus's free-seat count, and start_boarding /
\* complete_boarding of bus b changes neither b's alighting flag nor any
\* flag of another bus.
C40_OperationsAreLocal ==
    [][/\ \A t \in EntityThreads :
            Acts(t) /\ th'[t].op \in LedgerOps => OtherCardsUnchanged(th'[t].passenger_id)
       /\ \A t \in EntityThreads :
            Acts(t) /\ th'[t].op \in SeatOps => OtherSeatsUnchanged(th'[t].bus_id)
       /\ \A t \in EntityThreads, b \in Buses :
            start_boarding(t, {b}, {"s1"}) \/ complete_boarding(t, {b})
                => OtherFlagsUnchanged("boarding", b)]_vars

\* A card has been debited, a seat of b1 is taken and the boarding phase of
\* b1 is complete, while the other passenger's card, b2's seats and b2's
\* started boarding phase are as they were.
C40_Witness ==
    /\ \E p \in Passengers : card_balances[p] < InitialBalances[p]
    /\ bus_semaphores["b1"] < Capacity["b1"] /\ bus_semaphores["b2"] = Capacity["b2"]
    /\ boarding_complete["b1"] /\ ~boarding_complete["b2"]

====
